---- MODULE Spec2Model ----
(***************************************************************************)
(* Model of the local optimisation pass of the Brainfuck-to-C translator   *)
(* (src/src/bf2c/localop.rs, optimise_local).  The pass is a single `for`  *)
(* loop over the symbol sequence; one iteration of that loop is one action *)
(* of the model, one action per arm of the `match`.  The input sequence is *)
(* fed one symbol at a time; `consumed` records the symbols eaten so far.  *)
(***************************************************************************)
EXTENDS Integers, Sequences, FiniteSets, TLC

\* Longest symbol sequence fed under Spec (all eight symbols).
MaxLen == 5
\* Longest loop body fed under SpecLoop (programs of the shape `[` body `]`
\* with a body of Plus/Minus/Right/Left only).
MaxBody == 8
\* The reference interpreters run on the tape cells -TapeRadius..TapeRadius
\* for at most MaxSteps steps.
TapeRadius == 7
MaxSteps == 48
\* Longest source text handed to parse and bf2cify under SpecBf.
MaxBuf == 4
\* Longest of the symbol sequences of every shape handed to optimise_local
\* under SpecProg.
MaxProg == 4
\* Most command-line arguments given to main under SpecMain.
MaxArgs == 4
\* Most add_name calls made on one RenamerCTX under SpecRen.
MaxCalls == 3
\* Most operators (prefix, infix, call) in an expression handed to the
\* expression parser under SpecExpr.
MaxOps == 2

VARIABLES
    prog,        \* `prog`, the argument of optimise_local (SpecProg); under
                 \* Spec and SpecLoop the symbols come one at a time instead
    consumed,    \* the symbols of `prog` the for loop has consumed so far
    stmts,       \* `stmts`: the statement list of the current nesting level
    loop_stack,  \* `loop_stack`: the lists of the enclosing levels
    pc,          \* "loop" inside the for loop, "done" after `Prog::Vec(stmts)`
    buf,         \* parse: the source text, a sequence of characters
    verify,      \* parse: the verify flag
    ci,          \* parse: characters of buf.trim() consumed so far
    out,         \* parse: `out`, the symbols pushed so far
    bracket_depth, \* parse: `bracket_depth`
    ppc,         \* parse: "idle", "parse", then "ok" or "err"
    ei,          \* emit_without_boilerplate: tokens consumed so far
    code,        \* emit_without_boilerplate: `out`, the lines written so far
    indent_depth, \* emit_without_boilerplate: `indent_depth`
    result,      \* what parse / bf2cify returned: NoResult, Ok(..) or Err(..)
    args,        \* main: `args`, the command line without the program name
    ai,          \* main: arguments the for loop has met so far
    input_file,  \* main: `input_file`, None or Some(path)
    output_file, \* main: `output_file`, None or Some(path)
    main_verify, \* main: its local `verify`
    main_pc,     \* main: "idle", "scan", "translate", "write" or "exit"
    status,      \* main: None while running, Some(exit status) afterwards
    files,       \* main: the files opened or created so far, in order
    printed,     \* main: the lines written to stdout and stderr so far
    src,         \* expression parser: the text to parse
    expr_pc,     \* expression parser: "idle", "ready" or "parsed"
    expr_out,    \* expression parser: what it returned
    mapping,     \* RenamerCTX: `mapping`, a Trie per name
    errs,        \* RenamerCTX: `errs`
    calls        \* RenamerCTX: the add_name calls made so far

optVars == <<prog, consumed, stmts, loop_stack, pc>>

bfVars == <<buf, verify, ci, out, bracket_depth, ppc, ei, code, indent_depth,
            result>>

mainVars == <<args, ai, input_file, output_file, main_verify, main_pc, status,
              files, printed>>

exprVars == <<src, expr_pc, expr_out>>

renVars == <<mapping, errs, calls>>

vars == <<prog, consumed, stmts, loop_stack, pc, buf, verify, ci, out, bracket_depth,
          ppc, ei, code, indent_depth, result, args, ai, input_file,
          output_file, main_verify, main_pc, status, files, printed, src,
          expr_pc, expr_out, mapping, errs, calls>>

BfSymbol ==
    {"Plus", "Minus", "Right", "Left", "Period", "Comma",
     "OpenBracket", "CloseBracket"}

ArithSymbol == {"Plus", "Minus", "Right", "Left"}

----------------------------------------------------------------------------
(* HashMap<i32, i32> as a function with a finite domain of integers.       *)

EmptyMap == [k \in {} |-> 0]

MapInsert(m, k, v) == [j \in DOMAIN m \cup {k} |-> IF j = k THEN v ELSE m[j]]

MapRemove(m, k) == [j \in DOMAIN m \ {k} |-> m[j]]

(* Rust's `%` truncates towards zero: the remainder has the dividend's sign. *)
RustRem(a, b) == IF a >= 0 THEN a % b ELSE -((-a) % b)

AsU8Saturating(x) == IF x > 255 THEN 255 ELSE IF x < 0 THEN 0 ELSE x

(* `x as u8` on an i32: the low eight bits. *)
AsU8(x) == x % 256

----------------------------------------------------------------------------
(* enum Stmt *)

Action(offset, changes) ==
    [tag |-> "Action", offset |-> offset, changes |-> changes]

Output(n) == [tag |-> "Output", n |-> n]

Input(n) == [tag |-> "Input", n |-> n]

Loop(body) == [tag |-> "Loop", body |-> body]

ScanLoop(dir) == [tag |-> "ScanLoop", dir |-> dir]

MultiplicationLoop(decrement, targets) ==
    [tag |-> "MultiplicationLoop", decrement |-> decrement, targets |-> targets]

ZeroLoop == [tag |-> "ZeroLoop"]

LastIs(s, tag) == Len(s) > 0 /\ s[Len(s)].tag = tag

SetLast(s, st) == [s EXCEPT ![Len(s)] = st]

----------------------------------------------------------------------------
(* The arms of the match, as functions of the current list. *)

PlusArmKeepZero(s) ==
    IF LastIs(s, "Action")
    THEN LET a == s[Len(s)]
             off == a.offset
         IN SetLast(s, [a EXCEPT !.changes =
                IF off \in DOMAIN a.changes
                THEN [a.changes EXCEPT ![off] = @ + 1]
                ELSE MapInsert(a.changes, off, 1)])
    ELSE Append(s, Action(0, MapInsert(EmptyMap, 0, 1)))

PlusArm(s) ==
    IF LastIs(s, "Action")
    THEN LET a == s[Len(s)]
             off == a.offset
             c1 == IF off \in DOMAIN a.changes
                   THEN [a.changes EXCEPT ![off] = @ + 1]
                   ELSE MapInsert(a.changes, off, 1)
             c2 == IF off \in DOMAIN c1 /\ c1[off] = 0
                   THEN MapRemove(c1, off)
                   ELSE c1
         IN SetLast(s, [a EXCEPT !.changes = c2])
    ELSE Append(s, Action(0, MapInsert(EmptyMap, 0, 1)))

MinusArm(s) ==
    IF LastIs(s, "Action")
    THEN LET a == s[Len(s)]
             off == a.offset
             c1 == IF off \in DOMAIN a.changes
                   THEN [a.changes EXCEPT ![off] = @ - 1]
                   ELSE a.changes
             c2 == IF off \in DOMAIN c1 /\ c1[off] = 0
                   THEN MapRemove(c1, off)
                   ELSE c1
         IN SetLast(s, [a EXCEPT !.changes = c2])
    ELSE Append(s, Action(0, MapInsert(EmptyMap, 0, -1)))

RightArmAlwaysPushes(s) == Append(s, Action(1, EmptyMap))

RightArmShiftsChanges(s) ==
    IF LastIs(s, "Action")
    THEN LET a == s[Len(s)]
         IN SetLast(s, Action(a.offset + 1,
                              [k \in {j - 1 : j \in DOMAIN a.changes} |->
                                  a.changes[k + 1]]))
    ELSE Append(s, Action(1, EmptyMap))

RightArm(s) ==
    IF LastIs(s, "Action")
    THEN SetLast(s, [s[Len(s)] EXCEPT !.offset = @ + 1])
    ELSE Append(s, Action(1, EmptyMap))

LeftArm(s) ==
    IF LastIs(s, "Action")
    THEN SetLast(s, [s[Len(s)] EXCEPT !.offset = @ - 1])
    ELSE Append(s, Action(-1, EmptyMap))

PeriodArmMergeAny(s) ==
    IF LastIs(s, "Output") \/ LastIs(s, "Input")
    THEN SetLast(s, [s[Len(s)] EXCEPT !.n = @ + 1])
    ELSE Append(s, Output(1))

PeriodArm(s) ==
    IF LastIs(s, "Output")
    THEN SetLast(s, [s[Len(s)] EXCEPT !.n = @ + 1])
    ELSE Append(s, Output(1))

CommaArm(s) ==
    IF LastIs(s, "Input")
    THEN SetLast(s, [s[Len(s)] EXCEPT !.n = @ + 1])
    ELSE Append(s, Input(1))

----------------------------------------------------------------------------
(* Loop classification at CloseBracket. *)

(* One step of the fold's closure: None stays None, an Action adds its     *)
(* changes shifted by the running offset and then its offset, anything     *)
(* else gives None.                                                        *)
FoldStepSkipOthers(res, stmt) ==
    IF ~res.some THEN res
    ELSE IF stmt.tag = "Action"
    THEN [some |-> TRUE,
          offset |-> res.offset + stmt.offset,
          changes |->
            [k \in DOMAIN res.changes
                     \cup {res.offset + j : j \in DOMAIN stmt.changes} |->
                (IF k \in DOMAIN res.changes THEN res.changes[k] ELSE 0)
              + (IF (k - res.offset) \in DOMAIN stmt.changes
                 THEN stmt.changes[k - res.offset] ELSE 0)]]
    ELSE res

FoldStep(res, stmt) ==
    IF ~res.some THEN res
    ELSE IF stmt.tag = "Action"
    THEN [some |-> TRUE,
          offset |-> res.offset + stmt.offset,
          changes |->
            [k \in DOMAIN res.changes
                     \cup {res.offset + j : j \in DOMAIN stmt.changes} |->
                (IF k \in DOMAIN res.changes THEN res.changes[k] ELSE 0)
              + (IF (k - res.offset) \in DOMAIN stmt.changes
                 THEN stmt.changes[k - res.offset] ELSE 0)]]
    ELSE [some |-> FALSE, offset |-> 0, changes |-> EmptyMap]

RECURSIVE FoldFrom(_, _, _)
FoldFrom(body, i, res) ==
    IF i > Len(body) THEN res
    ELSE FoldFrom(body, i + 1, FoldStep(res, body[i]))

(* body.iter().fold(Some((0, HashMap::new())), ...) *)
Fold(body) ==
    FoldFrom(body, 1, [some |-> TRUE, offset |-> 0, changes |-> EmptyMap])

IsScanBodyAnyMove(body) ==
    /\ Len(body) = 1
    /\ body[1].tag = "Action"
    /\ body[1].offset # 0
    /\ DOMAIN body[1].changes = {}

IsScanBody(body) ==
    /\ Len(body) = 1
    /\ body[1].tag = "Action"
    /\ body[1].offset \in {1, -1}
    /\ DOMAIN body[1].changes = {}

(* The .and_then(...) on the fold's result: Some(MultiplicationLoop) or    *)
(* None, the latter as [some |-> FALSE].                                   *)
MulOfFoldNoNegate(res) ==
    IF /\ res.some
       /\ 0 \in DOMAIN res.changes
       /\ RustRem(res.changes[0], 2) # 0
       /\ res.offset = 0
    THEN [some |-> TRUE,
          stmt |-> MultiplicationLoop(
                      AsU8(res.changes[0]),
                      {<<k, res.changes[k]>> :
                          k \in {j \in DOMAIN res.changes \ {0} :
                                    res.changes[j] # 0}})]
    ELSE [some |-> FALSE]

MulOfFoldKeepsOrigin(res) ==
    IF /\ res.some
       /\ 0 \in DOMAIN res.changes
       /\ RustRem(res.changes[0], 2) # 0
       /\ res.offset = 0
    THEN [some |-> TRUE,
          stmt |-> MultiplicationLoop(
                      AsU8(-res.changes[0]),
                      {<<k, res.changes[k]>> :
                          k \in {j \in DOMAIN res.changes :
                                    res.changes[j] # 0}})]
    ELSE [some |-> FALSE]

MulOfFold(res) ==
    IF /\ res.some
       /\ 0 \in DOMAIN res.changes
       /\ RustRem(res.changes[0], 2) # 0
       /\ res.offset = 0
    THEN [some |-> TRUE,
          stmt |-> MultiplicationLoop(
                      AsU8(-res.changes[0]),
                      {<<k, res.changes[k]>> :
                          k \in {j \in DOMAIN res.changes \ {0} :
                                    res.changes[j] # 0}})]
    ELSE [some |-> FALSE]

ClassifyAnyOffset(loop_body) ==
    IF IsScanBody(loop_body)
    THEN ScanLoop(loop_body[1].offset)
    ELSE LET f == Fold(loop_body)
             m == MulOfFold([f EXCEPT !.offset = 0])
         IN IF m.some THEN m.stmt ELSE Loop(loop_body)

ClassifyZeroLoop(loop_body) ==
    IF IsScanBody(loop_body)
    THEN ScanLoop(loop_body[1].offset)
    ELSE LET m == MulOfFold(Fold(loop_body))
         IN IF m.some
            THEN (IF m.stmt = MultiplicationLoop(1, {}) THEN ZeroLoop ELSE m.stmt)
            ELSE Loop(loop_body)

ClassifyPruned(loop_body) ==
    IF IsScanBody(loop_body)
    THEN ScanLoop(loop_body[1].offset)
    ELSE LET m == MulOfFold(Fold(loop_body))
             IsNoOp(st) == /\ st.tag = "Action"
                           /\ st.offset = 0
                           /\ DOMAIN st.changes = {}
         IN IF m.some THEN m.stmt
            ELSE Loop(SelectSeq(loop_body, LAMBDA st : ~IsNoOp(st)))

Classify(loop_body) ==
    IF IsScanBody(loop_body)
    THEN ScanLoop(loop_body[1].offset)
    ELSE LET m == MulOfFold(Fold(loop_body))
         IN IF m.some THEN m.stmt ELSE Loop(loop_body)

----------------------------------------------------------------------------
(* The state machine. *)

NoResult == [tag |-> "None"]

Ok(v) == [tag |-> "Ok", val |-> v]

Err(msg) == [tag |-> "Err", msg |-> msg]

(* No text is being translated: the optimizer is called on its own. *)
BfIdle ==
    /\ buf = <<>>
    /\ verify = TRUE
    /\ ci = 0
    /\ out = <<>>
    /\ bracket_depth = 0
    /\ ppc = "idle"
    /\ ei = 0
    /\ code = <<>>
    /\ indent_depth = 1
    /\ result = NoResult

(* Option<T>: None, or Some(v). *)
None == <<>>

Some(v) == <<v>>

(* optimise_local is not running. *)
OptIdle ==
    /\ prog = <<>>
    /\ consumed = <<>>
    /\ stmts = <<>>
    /\ loop_stack = <<>>
    /\ pc = "loop"

(* main is not running. *)
MainIdle ==
    /\ args = <<>>
    /\ ai = 0
    /\ input_file = None
    /\ output_file = None
    /\ main_verify = TRUE
    /\ main_pc = "idle"
    /\ status = None
    /\ files = <<>>
    /\ printed = <<>>

(* The expression parser is not running. *)
ExprIdle ==
    /\ src = <<>>
    /\ expr_pc = "idle"
    /\ expr_out = NoResult

(* No RenamerCTX is in use. *)
RenIdle ==
    /\ mapping = <<>>
    /\ errs = <<>>
    /\ calls = <<>>

Init ==
    /\ prog = <<>>
    /\ consumed = <<>>
    /\ stmts = <<>>
    /\ loop_stack = <<>>
    /\ pc = "loop"
    /\ BfIdle
    /\ MainIdle /\ ExprIdle /\ RenIdle

Eat(symbol) ==
    /\ pc = "loop"
    /\ consumed' = Append(consumed, symbol)
    /\ pc' = pc
    /\ UNCHANGED <<prog, bfVars, mainVars, exprVars, renVars>>

Plus ==
    /\ Eat("Plus")
    /\ stmts' = PlusArm(stmts)
    /\ UNCHANGED loop_stack

Minus ==
    /\ Eat("Minus")
    /\ stmts' = MinusArm(stmts)
    /\ UNCHANGED loop_stack

Right ==
    /\ Eat("Right")
    /\ stmts' = RightArm(stmts)
    /\ UNCHANGED loop_stack

Left ==
    /\ Eat("Left")
    /\ stmts' = LeftArm(stmts)
    /\ UNCHANGED loop_stack

Period ==
    /\ Eat("Period")
    /\ stmts' = PeriodArm(stmts)
    /\ UNCHANGED loop_stack

Comma ==
    /\ Eat("Comma")
    /\ stmts' = CommaArm(stmts)
    /\ UNCHANGED loop_stack

OpenBracketNoPush ==
    /\ Eat("OpenBracket")
    /\ UNCHANGED loop_stack
    /\ stmts' = <<>>

OpenBracket ==
    /\ Eat("OpenBracket")
    /\ loop_stack' = Append(loop_stack, stmts)
    /\ stmts' = <<>>

CloseBracketOrphanClears ==
    /\ Eat("CloseBracket")
    /\ IF Len(loop_stack) > 0
       THEN /\ stmts' = Append(loop_stack[Len(loop_stack)], Classify(stmts))
            /\ loop_stack' = SubSeq(loop_stack, 1, Len(loop_stack) - 1)
       ELSE stmts' = <<>> /\ UNCHANGED loop_stack

CloseBracketClassifiesTwice ==
    /\ Eat("CloseBracket")
    /\ IF Len(loop_stack) > 0
       THEN /\ stmts' = Append(Append(loop_stack[Len(loop_stack)],
                                      Classify(stmts)), Classify(stmts))
            /\ loop_stack' = SubSeq(loop_stack, 1, Len(loop_stack) - 1)
       ELSE UNCHANGED <<stmts, loop_stack>>

CloseBracket ==
    /\ Eat("CloseBracket")
    /\ IF Len(loop_stack) > 0
       THEN /\ stmts' = Append(loop_stack[Len(loop_stack)], Classify(stmts))
            /\ loop_stack' = SubSeq(loop_stack, 1, Len(loop_stack) - 1)
       ELSE UNCHANGED <<stmts, loop_stack>>

ReturnOutermost ==
    /\ pc = "loop"
    /\ pc' = "done"
    /\ stmts' = IF loop_stack # <<>> THEN loop_stack[1] ELSE stmts
    /\ UNCHANGED <<consumed, loop_stack>>
    /\ UNCHANGED <<prog, bfVars, mainVars, exprVars, renVars>>

(* The end of the input: Prog::Vec(stmts) is returned. *)
Return ==
    /\ pc = "loop"
    /\ pc' = "done"
    /\ UNCHANGED <<consumed, stmts, loop_stack>>
    /\ UNCHANGED <<prog, bfVars, mainVars, exprVars, renVars>>

Next ==
    \/ Len(consumed) < MaxLen /\ Plus
    \/ Len(consumed) < MaxLen /\ Minus
    \/ Len(consumed) < MaxLen /\ Right
    \/ Len(consumed) < MaxLen /\ Left
    \/ Len(consumed) < MaxLen /\ Period
    \/ Len(consumed) < MaxLen /\ Comma
    \/ Len(consumed) < MaxLen /\ OpenBracket
    \/ Len(consumed) < MaxLen /\ CloseBracket
    \/ Return

Spec == Init /\ [][Next]_vars

(* The same loop fed only programs of the shape `[` body `]` whose body is *)
(* made of Plus, Minus, Right and Left: the loops the classifier decides.  *)
InBody == Len(loop_stack) = 1 /\ Len(consumed) < MaxBody + 1

NextLoop ==
    \/ consumed = <<>> /\ OpenBracket
    \/ InBody /\ Plus
    \/ InBody /\ Minus
    \/ InBody /\ Right
    \/ InBody /\ Left
    \/ Len(loop_stack) = 1 /\ CloseBracket
    \/ loop_stack = <<>> /\ consumed # <<>> /\ Return

SpecLoop == Init /\ [][NextLoop]_vars

(* optimise_local called on a whole symbol sequence: every sequence of at  *)
(* most MaxProg symbols, and the longer inputs of the unit tests and of    *)
(* the byte conversion.                                                    *)
RECURSIVE SymbolSeqs(_)
SymbolSeqs(n) ==
    IF n = 0 THEN {<<>>}
    ELSE LET shorter == SymbolSeqs(n - 1)
         IN shorter \cup {Append(q, y) : q \in shorter, y \in BfSymbol}

(* `++[->+>+<-<]` *)
DeclutterInput ==
    <<"Plus", "Plus", "OpenBracket", "Minus", "Right", "Plus", "Right", "Plus",
      "Left", "Minus", "Left", "CloseBracket">>

(* `[--->>++>>>+++++<<<<<]` *)
OddDecrementInput ==
    <<"OpenBracket", "Minus", "Minus", "Minus", "Right", "Right", "Plus",
      "Plus", "Right", "Right", "Right", "Plus", "Plus", "Plus", "Plus", "Plus",
      "Left", "Left", "Left", "Left", "Left", "CloseBracket">>

(* `[`, n times the symbol, `]` *)
LoopOfRun(symbol, n) ==
    <<"OpenBracket">> \o [i \in 1..n |-> symbol] \o <<"CloseBracket">>

(* Runs whose net change leaves the range of a byte. *)
WideRuns == {255, 256, 257}

Programs ==
    SymbolSeqs(MaxProg)
        \cup {DeclutterInput, OddDecrementInput}
        \cup {LoopOfRun(y, n) : y \in {"Plus", "Minus"}, n \in WideRuns}

InitProg ==
    /\ prog \in Programs
    /\ consumed = <<>>
    /\ stmts = <<>>
    /\ loop_stack = <<>>
    /\ pc = "loop"
    /\ BfIdle
    /\ MainIdle /\ ExprIdle /\ RenIdle

(* `for symbol in prog`: the next symbol of prog is the given one. *)
Upcoming(symbol) ==
    Len(consumed) < Len(prog) /\ prog[Len(consumed) + 1] = symbol

NextProg ==
    \/ Upcoming("Plus") /\ Plus
    \/ Upcoming("Minus") /\ Minus
    \/ Upcoming("Right") /\ Right
    \/ Upcoming("Left") /\ Left
    \/ Upcoming("Period") /\ Period
    \/ Upcoming("Comma") /\ Comma
    \/ Upcoming("OpenBracket") /\ OpenBracket
    \/ Upcoming("CloseBracket") /\ CloseBracket
    \/ consumed = prog /\ Return

SpecProg == InitProg /\ [][NextProg]_vars

(* The for loop runs its next iteration, and the function returns after    *)
(* the last one: nothing else is scheduled.                                *)
FairSpecProg == SpecProg /\ WF_vars(NextProg)

----------------------------------------------------------------------------
(* The tokenizer and the naive emitter (src/src/bf2c/mod.rs): parse,       *)
(* parse_without_verification, emit_without_boilerplate, wrap_boilerplate  *)
(* and bf2cify.  A text is a sequence of one-character strings; a C text   *)
(* is a sequence of lines, each <<leading spaces, the rest of the line>>.  *)

InstrChar == {"<", ">", "+", "-", ".", ",", "[", "]"}

Char == InstrChar \cup {"a", " "}

(* Every text of at most n characters. *)
RECURSIVE Texts(_)
Texts(n) ==
    IF n = 0 THEN {<<>>}
    ELSE LET shorter == Texts(n - 1)
         IN shorter \cup {Append(t, c) : t \in shorter, c \in Char}

(* str::trim: the text without its leading and trailing white space. *)
Trim(text) ==
    LET solid == {i \in 1..Len(text) : text[i] # " "}
    IN IF solid = {} THEN <<>>
       ELSE SubSeq(text,
                   CHOOSE i \in solid : \A j \in solid : i <= j,
                   CHOOSE i \in solid : \A j \in solid : j <= i)

MissingOpen == "missing open bracket"

NotWellFormed == "Brainfuck code is not well-formed (Brackets do not match)"

(* One iteration of parse's `for c in buf.trim().chars()`: the new `out`   *)
(* and `bracket_depth`, and the error returned from inside the loop ("" if *)
(* none).                                                                  *)
ParseCharNoEarlyReturn(c, v, o, d) ==
    CASE c = "<" -> [out |-> Append(o, "Left"), depth |-> d, err |-> ""]
      [] c = ">" -> [out |-> Append(o, "Right"), depth |-> d, err |-> ""]
      [] c = "+" -> [out |-> Append(o, "Plus"), depth |-> d, err |-> ""]
      [] c = "-" -> [out |-> Append(o, "Minus"), depth |-> d, err |-> ""]
      [] c = "." -> [out |-> Append(o, "Period"), depth |-> d, err |-> ""]
      [] c = "," -> [out |-> Append(o, "Comma"), depth |-> d, err |-> ""]
      [] c = "[" -> [out |-> Append(o, "OpenBracket"),
                     depth |-> IF v THEN d + 1 ELSE d, err |-> ""]
      [] c = "]" -> [out |-> Append(o, "CloseBracket"),
                     depth |-> IF v THEN d - 1 ELSE d, err |-> ""]
      [] OTHER -> [out |-> o, depth |-> d, err |-> ""]

ParseCharSwapsMoves(c, v, o, d) ==
    CASE c = "<" -> [out |-> Append(o, "Right"), depth |-> d, err |-> ""]
      [] c = ">" -> [out |-> Append(o, "Left"), depth |-> d, err |-> ""]
      [] c = "+" -> [out |-> Append(o, "Plus"), depth |-> d, err |-> ""]
      [] c = "-" -> [out |-> Append(o, "Minus"), depth |-> d, err |-> ""]
      [] c = "." -> [out |-> Append(o, "Period"), depth |-> d, err |-> ""]
      [] c = "," -> [out |-> Append(o, "Comma"), depth |-> d, err |-> ""]
      [] c = "[" -> [out |-> Append(o, "OpenBracket"),
                     depth |-> IF v THEN d + 1 ELSE d, err |-> ""]
      [] c = "]" -> [out |-> Append(o, "CloseBracket"),
                     depth |-> IF v /\ d # 0 THEN d - 1 ELSE d,
                     err |-> IF v /\ d = 0 THEN MissingOpen ELSE ""]
      [] OTHER -> [out |-> o, depth |-> d, err |-> ""]

ParseCharAlwaysCounts(c, v, o, d) ==
    CASE c = "<" -> [out |-> Append(o, "Left"), depth |-> d, err |-> ""]
      [] c = ">" -> [out |-> Append(o, "Right"), depth |-> d, err |-> ""]
      [] c = "+" -> [out |-> Append(o, "Plus"), depth |-> d, err |-> ""]
      [] c = "-" -> [out |-> Append(o, "Minus"), depth |-> d, err |-> ""]
      [] c = "." -> [out |-> Append(o, "Period"), depth |-> d, err |-> ""]
      [] c = "," -> [out |-> Append(o, "Comma"), depth |-> d, err |-> ""]
      [] c = "[" -> [out |-> Append(o, "OpenBracket"),
                     depth |-> d + 1, err |-> ""]
      [] c = "]" -> [out |-> Append(o, "CloseBracket"),
                     depth |-> IF v /\ d # 0 THEN d - 1 ELSE d,
                     err |-> IF v /\ d = 0 THEN MissingOpen ELSE ""]
      [] OTHER -> [out |-> o, depth |-> d, err |-> ""]

ParseChar(c, v, o, d) ==
    CASE c = "<" -> [out |-> Append(o, "Left"), depth |-> d, err |-> ""]
      [] c = ">" -> [out |-> Append(o, "Right"), depth |-> d, err |-> ""]
      [] c = "+" -> [out |-> Append(o, "Plus"), depth |-> d, err |-> ""]
      [] c = "-" -> [out |-> Append(o, "Minus"), depth |-> d, err |-> ""]
      [] c = "." -> [out |-> Append(o, "Period"), depth |-> d, err |-> ""]
      [] c = "," -> [out |-> Append(o, "Comma"), depth |-> d, err |-> ""]
      [] c = "[" -> [out |-> Append(o, "OpenBracket"),
                     depth |-> IF v THEN d + 1 ELSE d, err |-> ""]
      [] c = "]" -> [out |-> Append(o, "CloseBracket"),
                     depth |-> IF v /\ d # 0 THEN d - 1 ELSE d,
                     err |-> IF v /\ d = 0 THEN MissingOpen ELSE ""]
      [] OTHER -> [out |-> o, depth |-> d, err |-> ""]

(* One iteration of emit_without_boilerplate's `for token in tokens`: the  *)
(* line written and the new `indent_depth`.                                *)
EmitTokenCloseAfterWrite(token, depth) ==
    CASE token = "Left" -> [line |-> <<4 * depth, "ptr++;">>, depth |-> depth]
      [] token = "Right" -> [line |-> <<4 * depth, "ptr--;">>, depth |-> depth]
      [] token = "Plus" -> [line |-> <<4 * depth, "(*ptr)++;">>, depth |-> depth]
      [] token = "Minus" -> [line |-> <<4 * depth, "(*ptr)--;">>, depth |-> depth]
      [] token = "Period" ->
            [line |-> <<4 * depth, "putchar(*ptr);">>, depth |-> depth]
      [] token = "Comma" ->
            [line |-> <<4 * depth, "*ptr = getchar();">>, depth |-> depth]
      [] token = "OpenBracket" ->
            [line |-> <<4 * depth, "while (*ptr) {">>, depth |-> depth + 1]
      [] token = "CloseBracket" ->
            [line |-> <<4 * depth, "}">>, depth |-> depth - 1]

EmitToken(token, depth) ==
    CASE token = "Left" -> [line |-> <<4 * depth, "ptr++;">>, depth |-> depth]
      [] token = "Right" -> [line |-> <<4 * depth, "ptr--;">>, depth |-> depth]
      [] token = "Plus" -> [line |-> <<4 * depth, "(*ptr)++;">>, depth |-> depth]
      [] token = "Minus" -> [line |-> <<4 * depth, "(*ptr)--;">>, depth |-> depth]
      [] token = "Period" ->
            [line |-> <<4 * depth, "putchar(*ptr);">>, depth |-> depth]
      [] token = "Comma" ->
            [line |-> <<4 * depth, "*ptr = getchar();">>, depth |-> depth]
      [] token = "OpenBracket" ->
            [line |-> <<4 * depth, "while (*ptr) {">>, depth |-> depth + 1]
      [] token = "CloseBracket" ->
            [line |-> <<4 * (depth - 1), "}">>, depth |-> depth - 1]

Prologue ==
    << <<0, "#include <stdio.h>">>,
       <<0, "int main() {">>,
       <<3, "char tape[200000];">>,
       <<3, "for (int i = 0; i < 200000; i++) tape[i] = 0;">>,
       <<3, "char *ptr = tape;">> >>

Epilogue == << <<3, "return 0;">>, <<0, "}">> >>

WrapBoilerplateNoEpilogue(body) == Prologue \o body

WrapBoilerplate(body) == Prologue \o body \o Epilogue

(* A call of parse(buf, verify): of parse_without_verification when verify *)
(* is false, of bf2cify's parse(input, true) when it is true.              *)
InitBf ==
    /\ prog = <<>>
    /\ consumed = <<>>
    /\ stmts = <<>>
    /\ loop_stack = <<>>
    /\ pc = "loop"
    /\ buf \in Texts(MaxBuf)
    /\ verify \in BOOLEAN
    /\ ci = 0
    /\ out = <<>>
    /\ bracket_depth = 0
    /\ ppc = "parse"
    /\ ei = 0
    /\ code = <<>>
    /\ indent_depth = 1
    /\ result = NoResult
    /\ MainIdle /\ ExprIdle /\ RenIdle

(* One character of the for loop; an unmatched `]` under verify returns. *)
ParseStep ==
    /\ ppc = "parse"
    /\ ci < Len(Trim(buf))
    /\ LET r == ParseChar(Trim(buf)[ci + 1], verify, out, bracket_depth)
       IN /\ out' = r.out
          /\ bracket_depth' = r.depth
          /\ ci' = ci + 1
          /\ IF r.err # ""
             THEN ppc' = "err" /\ result' = Err(r.err)
             ELSE UNCHANGED <<ppc, result>>
    /\ UNCHANGED <<buf, verify, ei, code, indent_depth>>
    /\ UNCHANGED <<optVars, mainVars, exprVars, renVars>>

(* After the loop: the final depth check.  Under verify the Ok value goes  *)
(* on to bf2cify's emit; parse_without_verification unwraps and returns.   *)
ParseEnd ==
    /\ ppc = "parse"
    /\ ci = Len(Trim(buf))
    /\ IF bracket_depth # 0
       THEN ppc' = "err" /\ result' = Err(NotWellFormed)
       ELSE /\ ppc' = "ok"
            /\ result' = IF verify THEN result ELSE Ok(out)
    /\ UNCHANGED <<buf, verify, ci, out, bracket_depth, ei, code, indent_depth>>
    /\ UNCHANGED <<optVars, mainVars, exprVars, renVars>>

(* bf2cify: one token of emit_without_boilerplate(&parsed). *)
EmitStep ==
    /\ ppc = "ok" /\ verify /\ result = NoResult
    /\ ei < Len(out)
    /\ LET r == EmitToken(out[ei + 1], indent_depth)
       IN /\ code' = Append(code, r.line)
          /\ indent_depth' = r.depth
    /\ ei' = ei + 1
    /\ UNCHANGED <<buf, verify, ci, out, bracket_depth, ppc, result>>
    /\ UNCHANGED <<optVars, mainVars, exprVars, renVars>>

(* bf2cify: Ok(wrap_boilerplate(..)). *)
EmitEnd ==
    /\ ppc = "ok" /\ verify /\ result = NoResult
    /\ ei = Len(out)
    /\ result' = Ok(WrapBoilerplate(code))
    /\ UNCHANGED <<buf, verify, ci, out, bracket_depth, ppc, ei, code,
                   indent_depth>>
    /\ UNCHANGED <<optVars, mainVars, exprVars, renVars>>

NextBf == ParseStep \/ ParseEnd \/ EmitStep \/ EmitEnd

SpecBf == InitBf /\ [][NextBf]_vars

----------------------------------------------------------------------------
(* Reference readings of the raw symbol sequence, used to state the        *)
(* properties: they look only at the symbols, never at the statements.     *)

(* Pointer position, relative to the start, after the first i symbols. *)
RawPos(syms, i) ==
    Cardinality({j \in 1..i : syms[j] = "Right"})
  - Cardinality({j \in 1..i : syms[j] = "Left"})

RawDisp(syms) == RawPos(syms, Len(syms))

(* Net of the +1/-1 changes made while the pointer is at relative cell k. *)
RawDeltaAt(syms, k) ==
    Cardinality({j \in 1..Len(syms) :
                    syms[j] = "Plus" /\ RawPos(syms, j - 1) = k})
  - Cardinality({j \in 1..Len(syms) :
                    syms[j] = "Minus" /\ RawPos(syms, j - 1) = k})

RawChanges(syms) ==
    [k \in {j \in (-Len(syms))..Len(syms) : RawDeltaAt(syms, j) # 0} |->
        RawDeltaAt(syms, k)]

IsArith(syms) == \A j \in 1..Len(syms) : syms[j] \in ArithSymbol

(* Bracket depth after the first i symbols. *)
Depth(syms, i) ==
    Cardinality({j \in 1..i : syms[j] = "OpenBracket"})
  - Cardinality({j \in 1..i : syms[j] = "CloseBracket"})

Balanced(syms) ==
    /\ \A i \in 1..Len(syms) : Depth(syms, i) >= 0
    /\ Depth(syms, Len(syms)) = 0

(* syms is one loop: `[` body `]` with the first bracket closed by the last. *)
IsOneLoop(syms) ==
    /\ Len(syms) >= 2
    /\ syms[1] = "OpenBracket"
    /\ Balanced(syms)
    /\ \A i \in 1..(Len(syms) - 1) : Depth(syms, i) > 0

BodyOf(syms) == SubSeq(syms, 2, Len(syms) - 1)

(* The longest suffix of syms made of Plus/Minus/Right/Left only. *)
LastRunStart(syms) ==
    LET breaks == {j \in 1..Len(syms) : syms[j] \notin ArithSymbol}
    IN IF breaks = {} THEN 1
       ELSE 1 + (CHOOSE j \in breaks : \A i \in breaks : i <= j)

LastRun(syms) == SubSeq(syms, LastRunStart(syms), Len(syms))

(* Every statement of a tree, at every nesting level. *)
RECURSIVE AllStmts(_)
AllStmts(list) ==
    UNION {{list[i]} \cup (IF list[i].tag = "Loop"
                            THEN AllStmts(list[i].body) ELSE {})
           : i \in 1..Len(list)}

(* Every statement the optimizer currently holds. *)
HeldStmts ==
    AllStmts(stmts) \cup UNION {AllStmts(loop_stack[i]) : i \in 1..Len(loop_stack)}

(* The step that closes a loop with a matching open scope. *)
ClosesLoop ==
    /\ consumed' = Append(consumed, "CloseBracket")
    /\ Len(loop_stack) > 0

(* The statement that step appended. *)
Closed == stmts'[Len(stmts')]

(* The body's statements read one by one: the pointer offset before        *)
(* statement i, and the net delta the Actions make at absolute offset k.   *)
RECURSIVE BodyBase(_, _)
BodyBase(body, i) ==
    IF i <= 1 THEN 0 ELSE BodyBase(body, i - 1) + body[i - 1].offset

RECURSIVE BodyDeltaUpTo(_, _, _)
BodyDeltaUpTo(body, n, k) ==
    IF n = 0 THEN 0
    ELSE BodyDeltaUpTo(body, n - 1, k)
         + (LET j == k - BodyBase(body, n)
            IN IF j \in DOMAIN body[n].changes THEN body[n].changes[j] ELSE 0)

BodyDelta(body, k) == BodyDeltaUpTo(body, Len(body), k)

BodyTouched(body) ==
    UNION {{BodyBase(body, i) + j : j \in DOMAIN body[i].changes}
           : i \in 1..Len(body)}

BodyAllActions(body) == \A i \in 1..Len(body) : body[i].tag = "Action"

BodyNetOffset(body) == BodyBase(body, Len(body) + 1)

ExpectedTargets(body) ==
    {<<k, BodyDelta(body, k)>> :
        k \in {j \in BodyTouched(body) \ {0} : BodyDelta(body, j) # 0}}

(* The I/O statements and loop boundaries of a tree, in source order. *)
RECURSIVE IOTokens(_)
IOTokens(list) ==
    IF list = <<>> THEN <<>>
    ELSE LET st == list[1]
             head == CASE st.tag \in {"Output", "Input"} -> <<<<st.tag, st.n>>>>
                       [] st.tag = "Loop" ->
                            <<<<"[", 0>>>> \o IOTokens(st.body) \o <<<<"]", 0>>>>
                       [] st.tag \in {"ScanLoop", "MultiplicationLoop"} ->
                            <<<<"[", 0>>, <<"]", 0>>>>
                       [] OTHER -> <<>>
         IN head \o IOTokens(Tail(list))

(* The same reading of the raw symbols: a maximal run of one I/O symbol is *)
(* the symbol with the number of its repetitions.                          *)
RECURSIVE RawIOTokens(_, _)
RawIOTokens(syms, n) ==
    IF n = 0 THEN <<>>
    ELSE LET before == RawIOTokens(syms, n - 1)
             sym == syms[n]
             kind == IF sym = "Period" THEN "Output" ELSE "Input"
         IN CASE sym \in {"Period", "Comma"} ->
                    IF n > 1 /\ syms[n - 1] = sym
                    THEN [before EXCEPT ![Len(before)] = <<kind, @[2] + 1>>]
                    ELSE Append(before, <<kind, 1>>)
              [] sym = "OpenBracket" -> Append(before, <<"[", 0>>)
              [] sym = "CloseBracket" -> Append(before, <<"]", 0>>)
              [] OTHER -> before

----------------------------------------------------------------------------
(* Reference interpreters: the raw symbol sequence one instruction at a    *)
(* time, and the statement tree (Action = add each per-offset delta modulo *)
(* 256 then move the pointer by offset; ScanLoop; MultiplicationLoop; Loop *)
(* = while the current cell is nonzero).  A run is a record: the tape, the *)
(* pointer, the unread input, the output so far, the steps left and        *)
(* whether it is still running inside the tape window ("ok").              *)

Cells == (-TapeRadius)..TapeRadius

StartOf(tape, inp) ==
    [tape |-> tape, ptr |-> 0, inp |-> inp, out |-> <<>>,
     fuel |-> MaxSteps, st |-> "ok"]

(* getchar(): the next byte, or EOF (-1), which a byte cell holds as 255. *)
ReadByte(run) ==
    IF run.inp = <<>>
    THEN [run EXCEPT !.tape[run.ptr] = 255]
    ELSE [run EXCEPT !.tape[run.ptr] = Head(run.inp), !.inp = Tail(run.inp)]

MoveBy(run, d) ==
    IF run.ptr + d \in Cells
    THEN [run EXCEPT !.ptr = @ + d]
    ELSE [run EXCEPT !.st = "off"]

Tick(run) == [run EXCEPT !.fuel = @ - 1]

(* The CloseBracket matching the OpenBracket at i, the OpenBracket         *)
(* matching the CloseBracket at j.                                         *)
MatchClose(syms, i) ==
    CHOOSE j \in (i + 1)..Len(syms) :
        /\ Depth(syms, j) = Depth(syms, i) - 1
        /\ \A m \in (i + 1)..(j - 1) : Depth(syms, m) >= Depth(syms, i)

MatchOpen(syms, j) ==
    CHOOSE i \in 1..(j - 1) : syms[i] = "OpenBracket" /\ MatchClose(syms, i) = j

RECURSIVE RunRaw(_, _, _)
RunRaw(syms, i, run) ==
    IF i > Len(syms) \/ run.st # "ok" THEN run
    ELSE IF run.fuel = 0 THEN [run EXCEPT !.st = "timeout"]
    ELSE LET r == Tick(run)
             cell == r.tape[r.ptr]
         IN CASE syms[i] = "Plus" ->
                    RunRaw(syms, i + 1, [r EXCEPT !.tape[r.ptr] = (cell + 1) % 256])
              [] syms[i] = "Minus" ->
                    RunRaw(syms, i + 1, [r EXCEPT !.tape[r.ptr] = (cell - 1) % 256])
              [] syms[i] = "Right" -> RunRaw(syms, i + 1, MoveBy(r, 1))
              [] syms[i] = "Left" -> RunRaw(syms, i + 1, MoveBy(r, -1))
              [] syms[i] = "Period" ->
                    RunRaw(syms, i + 1, [r EXCEPT !.out = Append(@, cell)])
              [] syms[i] = "Comma" -> RunRaw(syms, i + 1, ReadByte(r))
              [] syms[i] = "OpenBracket" ->
                    RunRaw(syms, IF cell = 0 THEN MatchClose(syms, i) + 1 ELSE i + 1, r)
              [] syms[i] = "CloseBracket" ->
                    RunRaw(syms, IF cell # 0 THEN MatchOpen(syms, i) + 1 ELSE i + 1, r)

(* Add delta to the cell at ptr + k, for every entry (k, delta). *)
AddAll(run, pairs) ==
    IF \A p \in pairs : run.ptr + p[1] \in Cells
    THEN [run EXCEPT !.tape =
            [c \in Cells |->
                IF \E p \in pairs : run.ptr + p[1] = c
                THEN LET p == CHOOSE q \in pairs : run.ptr + q[1] = c
                     IN (run.tape[c] + p[2]) % 256
                ELSE run.tape[c]]]
    ELSE [run EXCEPT !.st = "off"]

RECURSIVE WriteBytes(_, _)
WriteBytes(n, run) ==
    IF n = 0 THEN run
    ELSE WriteBytes(n - 1, [run EXCEPT !.out = Append(@, run.tape[run.ptr])])

RECURSIVE ReadBytes(_, _)
ReadBytes(n, run) == IF n = 0 THEN run ELSE ReadBytes(n - 1, ReadByte(run))

RECURSIVE ExecList(_, _, _)
RECURSIVE ExecStmt(_, _)
ExecStmt(stmt, run) ==
    IF run.st # "ok" THEN run
    ELSE IF run.fuel = 0 THEN [run EXCEPT !.st = "timeout"]
    ELSE LET r == Tick(run)
             cell == r.tape[r.ptr]
         IN CASE stmt.tag = "Action" ->
                    LET added == AddAll(r, {<<k, stmt.changes[k]>> :
                                                k \in DOMAIN stmt.changes})
                    IN IF added.st = "ok" THEN MoveBy(added, stmt.offset) ELSE added
              [] stmt.tag = "Output" ->
                    WriteBytes(stmt.n, r)
              [] stmt.tag = "Input" -> ReadBytes(stmt.n, r)
              [] stmt.tag = "Loop" ->
                    IF cell = 0 THEN r
                    ELSE ExecStmt(stmt, ExecList(stmt.body, 1, r))
              [] stmt.tag = "ScanLoop" ->
                    IF cell = 0 THEN r
                    ELSE ExecStmt(stmt, MoveBy(r, stmt.dir))
              [] stmt.tag = "MultiplicationLoop" ->
                    IF cell = 0 THEN r
                    ELSE ExecStmt(stmt,
                            AddAll(r, stmt.targets \cup {<<0, -stmt.decrement>>}))

ExecList(list, i, run) ==
    IF i > Len(list) \/ run.st # "ok" THEN run
    ELSE ExecList(list, i + 1, ExecStmt(list[i], run))

ZeroTape == [c \in Cells |-> 0]

InitialTapes == {ZeroTape, [ZeroTape EXCEPT ![0] = 2, ![1] = 1]}

InputStreams == {<<>>, <<3>>}

----------------------------------------------------------------------------
(* Properties. *)

(* C1: for bracket-balanced input, every initial tape and every input      *)
(* stream, interpreting the returned Program gives exactly the output byte *)
(* sequence of interpreting the raw symbols one instruction at a time      *)
(* (compared on the runs the raw interpretation finishes).                 *)
C1_SameOutput ==
    (pc = "done" /\ Balanced(consumed)) =>
        \A tape \in InitialTapes : \A inp \in InputStreams :
            LET raw == RunRaw(consumed, 1, StartOf(tape, inp))
                opt == ExecList(stmts, 1, StartOf(tape, inp))
            IN raw.st = "ok" => (opt.st = "ok" /\ opt.out = raw.out)

(* C2: a loop `[` body `]` whose body is made of Plus/Minus/Right/Left and *)
(* has net pointer displacement 0 is classified MultiplicationLoop if and  *)
(* only if the body's net change to the origin cell is an odd decrement of *)
(* the byte cell (an odd net change).                                      *)
C2_MulIffOddDecrement ==
    (IsOneLoop(consumed) /\ IsArith(BodyOf(consumed))
        /\ RawDisp(BodyOf(consumed)) = 0)
    => (stmts[Len(stmts)].tag = "MultiplicationLoop"
            <=> RawDeltaAt(BodyOf(consumed), 0) % 2 = 1)

(* C3: a maximal run of Plus/Minus/Right/Left becomes one Action whose     *)
(* offset is the run's net displacement and whose changes map every        *)
(* run-local offset to the net of the changes made there, whether the      *)
(* first change at an offset is a Plus or a Minus.                         *)
C3_RunIsOneAction ==
    (LastRun(consumed) # <<>>
        /\ \A i \in 1..Len(consumed) : Depth(consumed, i) >= 0)
    => /\ LastIs(stmts, "Action")
       /\ stmts[Len(stmts)] =
            Action(RawDisp(LastRun(consumed)), RawChanges(LastRun(consumed)))

(* C4: the returned Program holds no Action with offset 0 and an empty     *)
(* changes mapping.                                                        *)
C4_NoEmptyAction ==
    pc = "done" =>
        \A st \in AllStmts(stmts) :
            ~(st.tag = "Action" /\ st.offset = 0 /\ DOMAIN st.changes = {})

(* C5: a loop is classified ScanLoop exactly when its body is a pure       *)
(* one-step move: only Plus/Minus/Right/Left, net displacement +1 or -1,   *)
(* no net value change to any cell; the direction is that displacement.    *)
C5_ScanIffPureStep ==
    IsOneLoop(consumed) =>
        LET body == BodyOf(consumed)
            pure == /\ IsArith(body)
                    /\ RawDisp(body) \in {1, -1}
                    /\ \A k \in (-Len(body))..Len(body) : RawDeltaAt(body, k) = 0
        IN /\ stmts[Len(stmts)].tag = "ScanLoop" <=> pure
           /\ pure => stmts[Len(stmts)] = ScanLoop(RawDisp(body))

(* C6 as stated: in a MultiplicationLoop, decrement is the negation of the *)
(* body's net delta at offset 0, and targets are the pairs (k, v) of the   *)
(* offsets k # 0 whose net delta v is nonzero.                             *)
C6_DecrementIsNegation ==
    [][(ClosesLoop /\ Closed.tag = "MultiplicationLoop")
        => /\ Closed.decrement = -BodyDelta(stmts, 0)
           /\ Closed.targets = ExpectedTargets(stmts)]_vars

(* C6 amended: decrement is the negation of the body's net delta at offset *)
(* 0 reduced modulo 256 (the i32 to u8 cast); targets as stated.           *)
C6_DecrementIsNegationMod256 ==
    [][(ClosesLoop /\ Closed.tag = "MultiplicationLoop")
        => /\ Closed.decrement = (-BodyDelta(stmts, 0)) % 256
           /\ Closed.targets = ExpectedTargets(stmts)]_vars

C6_Witness ==
    /\ consumed = <<"OpenBracket", "Minus", "Right", "Plus", "Right", "Plus",
                    "Left", "Minus", "Left", "CloseBracket">>
    /\ stmts = <<MultiplicationLoop(1, {<<2, 1>>})>>

(* C7 as stated: a loop is classified MultiplicationLoop only if its body  *)
(* folds to running offset 0 and a negative odd delta at offset 0.         *)
C7_OnlyNegativeOdd ==
    [][(ClosesLoop /\ Closed.tag = "MultiplicationLoop")
        => /\ BodyAllActions(stmts)
           /\ BodyNetOffset(stmts) = 0
           /\ BodyDelta(stmts, 0) < 0
           /\ BodyDelta(stmts, 0) % 2 = 1]_vars

(* C7 amended: a loop is classified MultiplicationLoop only if its body    *)
(* folds to running offset 0 and an odd delta at offset 0, of either sign; *)
(* a pointer-neutral body of Actions with a positive odd delta v at offset *)
(* 0 is classified MultiplicationLoop, with decrement -v modulo 256.       *)
C7_OnlyOdd ==
    [][ClosesLoop
        => /\ Closed.tag = "MultiplicationLoop"
                => /\ BodyAllActions(stmts)
                   /\ BodyNetOffset(stmts) = 0
                   /\ BodyDelta(stmts, 0) % 2 = 1
           /\ (BodyAllActions(stmts) /\ BodyNetOffset(stmts) = 0
                    /\ BodyDelta(stmts, 0) > 0 /\ BodyDelta(stmts, 0) % 2 = 1)
                => /\ Closed.tag = "MultiplicationLoop"
                   /\ Closed.decrement = (-BodyDelta(stmts, 0)) % 256]_vars

C7_Witness ==
    /\ consumed = <<"OpenBracket", "Plus", "Right", "Plus", "Left",
                    "CloseBracket">>
    /\ stmts = <<MultiplicationLoop(255, {<<1, 1>>})>>

(* C8: for balanced input, the Output(n) and Input(n) statements of the    *)
(* returned Program are, in order and at the same nesting level, the       *)
(* maximal runs of consecutive identical I/O symbols of the input, n being *)
(* the run's length.                                                       *)
C8_IORunsNeverMerge ==
    (pc = "done" /\ Balanced(consumed))
    => IOTokens(stmts) = RawIOTokens(consumed, Len(consumed))

C8_Witness ==
    /\ pc = "done"
    /\ consumed = <<"Comma", "Comma", "OpenBracket", "Comma", "CloseBracket">>
    /\ stmts = <<Input(2), Loop(<<Input(1)>>)>>

(* C9: at every step and nesting level, no Action's changes mapping holds  *)
(* an entry whose value is 0.                                              *)
C9_NoZeroEntry ==
    \A st \in HeldStmts :
        st.tag = "Action" => \A k \in DOMAIN st.changes : st.changes[k] # 0

C9_Witness ==
    /\ consumed = <<"Plus", "Right", "Plus", "Minus">>
    /\ stmts = <<Action(1, (0 :> 1))>>

(* C10: a closed loop classified neither ScanLoop nor MultiplicationLoop   *)
(* becomes Loop(body), body being exactly the list accumulated since the   *)
(* matching OpenBracket, appended to the enclosing list.                   *)
C10_LoopBodyUnchanged ==
    [][ClosesLoop
        => /\ Closed.tag \in {"Loop", "ScanLoop", "MultiplicationLoop"}
           /\ Closed.tag = "Loop" => Closed.body = stmts
           /\ SubSeq(stmts', 1, Len(stmts') - 1) = loop_stack[Len(loop_stack)]]_vars

C10_Witness ==
    /\ consumed = <<"OpenBracket", "Minus", "Minus", "CloseBracket">>
    /\ stmts = <<Loop(<<Action(0, (0 :> -2))>>)>>

(* optimise_local as a function of a whole symbol sequence: the locals     *)
(* after the for loop has consumed the first n symbols.                    *)
Feed(st, symbol) ==
    CASE symbol = "Plus" -> [st EXCEPT !.stmts = PlusArm(@)]
      [] symbol = "Minus" -> [st EXCEPT !.stmts = MinusArm(@)]
      [] symbol = "Right" -> [st EXCEPT !.stmts = RightArm(@)]
      [] symbol = "Left" -> [st EXCEPT !.stmts = LeftArm(@)]
      [] symbol = "Period" -> [st EXCEPT !.stmts = PeriodArm(@)]
      [] symbol = "Comma" -> [st EXCEPT !.stmts = CommaArm(@)]
      [] symbol = "OpenBracket" ->
            [stmts |-> <<>>, loop_stack |-> Append(st.loop_stack, st.stmts)]
      [] symbol = "CloseBracket" ->
            IF Len(st.loop_stack) > 0
            THEN [stmts |-> Append(st.loop_stack[Len(st.loop_stack)],
                                   Classify(st.stmts)),
                  loop_stack |-> SubSeq(st.loop_stack, 1, Len(st.loop_stack) - 1)]
            ELSE st

RECURSIVE FeedAll(_, _)
FeedAll(syms, n) ==
    IF n = 0 THEN [stmts |-> <<>>, loop_stack |-> <<>>]
    ELSE Feed(FeedAll(syms, n - 1), syms[n])

OptimiseLocal(syms) == FeedAll(syms, Len(syms)).stmts

(* Number of open scopes after the first i symbols, a CloseBracket with no *)
(* open scope leaving it at 0.                                             *)
RECURSIVE Height(_, _)
Height(syms, i) ==
    IF i = 0 THEN 0
    ELSE LET h == Height(syms, i - 1)
         IN CASE syms[i] = "OpenBracket" -> h + 1
              [] syms[i] = "CloseBracket" -> IF h > 0 THEN h - 1 ELSE 0
              [] OTHER -> h

(* syms without the CloseBrackets that meet no open scope. *)
RECURSIVE DropOrphans(_, _)
DropOrphans(syms, n) ==
    IF n = 0 THEN <<>>
    ELSE IF syms[n] = "CloseBracket" /\ Height(syms, n - 1) = 0
         THEN DropOrphans(syms, n - 1)
         ELSE Append(DropOrphans(syms, n - 1), syms[n])

(* Position of the innermost OpenBracket that is never closed. *)
LastUnclosed(syms) ==
    CHOOSE i \in 1..Len(syms) :
        /\ syms[i] = "OpenBracket"
        /\ Height(syms, i) = Height(syms, Len(syms))
        /\ \A j \in i..Len(syms) : Height(syms, j) >= Height(syms, i)

(* C11: a closed loop whose body holds any statement that is not an Action *)
(* (Output, Input or a loop statement) is classified as the generic Loop   *)
(* holding that body, never ScanLoop or MultiplicationLoop.                *)
C11_NonActionBodyIsLoop ==
    [][(ClosesLoop /\ ~BodyAllActions(stmts)) => Closed = Loop(stmts)]_vars

C11_Witness ==
    /\ consumed = <<"OpenBracket", "OpenBracket", "CloseBracket", "Minus",
                    "CloseBracket">>
    /\ stmts = <<Loop(<<Loop(<<>>), Action(0, (0 :> -1))>>)>>

(* C12: no statement the optimizer holds or returns, at any nesting level, *)
(* is a ZeroLoop; `[-]` is MultiplicationLoop with decrement 1 and no      *)
(* targets.                                                                *)
C12_NoZeroLoop ==
    /\ \A st \in HeldStmts : st # ZeroLoop /\ st.tag # "ZeroLoop"
    /\ consumed = <<"OpenBracket", "Minus", "CloseBracket">>
        => stmts = <<MultiplicationLoop(1, {})>>

C12_Witness ==
    /\ pc = "done"
    /\ consumed = <<"OpenBracket", "Minus", "CloseBracket">>
    /\ stmts = <<MultiplicationLoop(1, {})>>

(* C13: a CloseBracket met with an empty scope stack leaves the current    *)
(* list and the stack as they are, and the returned Program is the one     *)
(* returned for the input without its unmatched CloseBrackets.             *)
C13_OrphanCloseIsNoOp ==
    [][/\ (consumed' = Append(consumed, "CloseBracket") /\ loop_stack = <<>>)
            => UNCHANGED <<stmts, loop_stack>>
       /\ pc' = "done"
            => stmts' = OptimiseLocal(DropOrphans(consumed', Len(consumed')))]_vars

C13_Witness ==
    /\ pc = "done"
    /\ consumed = <<"Plus", "CloseBracket", "Plus">>
    /\ stmts = <<Action(0, (0 :> 2))>>

----------------------------------------------------------------------------
(* Reference readings of a source text, for the tokenizer and emitter      *)
(* properties.                                                             *)

IsInstrChar(c) == c \in InstrChar

SymbolOf(c) ==
    CASE c = "<" -> "Left"
      [] c = ">" -> "Right"
      [] c = "+" -> "Plus"
      [] c = "-" -> "Minus"
      [] c = "." -> "Period"
      [] c = "," -> "Comma"
      [] c = "[" -> "OpenBracket"
      [] c = "]" -> "CloseBracket"

(* The text with every non-instruction character deleted and every other   *)
(* character replaced by its symbol.                                       *)
Tokens(text) ==
    LET kept == SelectSeq(text, IsInstrChar)
    IN [i \in 1..Len(kept) |-> SymbolOf(kept[i])]

(* The first CloseBracket met at depth 0, or 0 if there is none. *)
FirstOrphan(syms) ==
    LET orphans == {i \in 1..Len(syms) : Depth(syms, i) < 0}
    IN IF orphans = {} THEN 0
       ELSE CHOOSE i \in orphans : \A j \in orphans : i <= j

(* The number of loops open around the symbol at i; a bracket is not       *)
(* inside its own loop.                                                    *)
OpenAround(syms, i) ==
    IF syms[i] = "CloseBracket" THEN Depth(syms, i) ELSE Depth(syms, i - 1)

(* What a line of the emitted C does, as the instruction with that effect: *)
(* `ptr++` moves the pointer one cell toward higher indices.               *)
MeaningOfC(text) ==
    CASE text = "ptr++;" -> "Right"
      [] text = "ptr--;" -> "Left"
      [] text = "(*ptr)++;" -> "Plus"
      [] text = "(*ptr)--;" -> "Minus"
      [] text = "putchar(*ptr);" -> "Period"
      [] text = "*ptr = getchar();" -> "Comma"
      [] text = "while (*ptr) {" -> "OpenBracket"
      [] text = "}" -> "CloseBracket"

CProgram(lines) == [i \in 1..Len(lines) |-> MeaningOfC(lines[i][2])]

(* C15: with verify, parse returns Ok exactly when the brackets of the     *)
(* input are balanced; it returns "missing open bracket" at the first `]`  *)
(* met at depth 0, having read no further, whatever follows; it returns    *)
(* the not-well-formed error at the end of input when the depth is not 0;  *)
(* otherwise it returns Ok with the symbol sequence.                       *)
C15_OkIffBalanced ==
    (verify /\ ppc \in {"ok", "err"}) =>
        LET syms == Tokens(buf)
            first == FirstOrphan(syms)
        IN /\ ppc = "ok" <=> Balanced(syms)
           /\ first # 0 =>
                 /\ result = Err(MissingOpen)
                 /\ out = SubSeq(syms, 1, first)
           /\ (first = 0 /\ Depth(syms, Len(syms)) # 0) =>
                 /\ result = Err(NotWellFormed)
                 /\ out = syms
           /\ Balanced(syms) => (out = syms /\ result.tag # "Err")

C15_Witness ==
    /\ verify
    /\ buf = <<"+", "]", "[">>
    /\ ppc = "err"
    /\ result = Err(MissingOpen)
    /\ out = <<"Plus", "CloseBracket">>

(* C16: the symbols pushed so far are the characters read so far with the  *)
(* non-instruction characters deleted and each instruction character       *)
(* replaced by its symbol, in order; the returned sequence is that of the  *)
(* whole input, as long as the number of its instruction characters.       *)
C16_TokensOfInput ==
    /\ ppc \in {"parse", "ok", "err"} => out = Tokens(SubSeq(Trim(buf), 1, ci))
    /\ ppc = "ok" =>
          /\ out = Tokens(buf)
          /\ Len(out) = Cardinality({i \in 1..Len(buf) : buf[i] \in InstrChar})

C16_Witness ==
    /\ ppc = "ok"
    /\ buf = <<" ", "<", "a", ">">>
    /\ out = <<"Left", "Right">>

(* C17: without verify the bracket depth stays 0 and parse returns no      *)
(* error, unmatched brackets or not; when it returns, it returns Ok, so    *)
(* the unwrap of parse_without_verification does not panic.                *)
C17_NoVerifyNeverErr ==
    ~verify =>
        /\ bracket_depth = 0
        /\ ppc # "err"
        /\ result.tag # "Err"
        /\ ppc # "parse" => result = Ok(Tokens(buf))

C17_Witness ==
    /\ ~verify
    /\ buf = <<"]", "[", "[">>
    /\ result = Ok(<<"CloseBracket", "OpenBracket", "OpenBracket">>)

(* C18: for unbalanced input bf2cify writes no line of C and returns an    *)
(* error; a returned Ok holds the prologue, then the whole emitted body,   *)
(* then the epilogue, and balanced input ends in Ok; for an input without  *)
(* instruction characters the text is the prologue followed by the         *)
(* epilogue.                                                               *)
C18_ErrBeforeEmission ==
    verify =>
        LET syms == Tokens(buf)
        IN /\ ~Balanced(syms) =>
                 /\ code = <<>> /\ ei = 0
                 /\ result.tag # "Ok"
                 /\ ~ENABLED NextBf => result.tag = "Err"
           /\ Balanced(syms) =>
                 /\ result.tag # "Err"
                 /\ ~ENABLED NextBf => result.tag = "Ok"
           /\ result.tag = "Ok" =>
                 /\ ei = Len(syms) /\ Len(code) = Len(syms)
                 /\ result.val = Prologue \o code \o Epilogue
                 /\ syms = <<>> => result.val = Prologue \o Epilogue

C18_Witness ==
    /\ verify
    /\ buf = <<"a", " ">>
    /\ result = Ok(<< <<0, "#include <stdio.h>">>,
                      <<0, "int main() {">>,
                      <<3, "char tape[200000];">>,
                      <<3, "for (int i = 0; i < 200000; i++) tape[i] = 0;">>,
                      <<3, "char *ptr = tape;">>,
                      <<3, "return 0;">>,
                      <<0, "}">> >>)

(* C19: for balanced input every emitted line has the effect of its        *)
(* instruction, and the emitted C, run from tape index 0 on each initial   *)
(* tape, ends on the same cell with the same tape and the same output as   *)
(* the source program.                                                     *)
C19_EmittedCEquivalent ==
    (verify /\ result.tag = "Ok") =>
        /\ \A i \in 1..Len(code) : MeaningOfC(code[i][2]) = out[i]
        /\ \A tape \in InitialTapes : \A inp \in InputStreams :
              LET raw == RunRaw(out, 1, StartOf(tape, inp))
                  c == RunRaw(CProgram(code), 1, StartOf(tape, inp))
              IN raw.st = "ok" =>
                    /\ c.st = "ok"
                    /\ c.ptr = raw.ptr
                    /\ c.tape = raw.tape
                    /\ c.out = raw.out

(* C20: emit_without_boilerplate has written one line per symbol consumed, *)
(* in order; line i is indented by 4 * (1 + the loops open around symbol   *)
(* i); the `while` line of a loop and its matching `}` line have the same  *)
(* indentation and the lines between are at least one level deeper; the    *)
(* indent counter is 1 + the loops open and never below 1.                 *)
C20_IndentMirrorsNesting ==
    (verify /\ ppc = "ok") =>
        /\ Len(code) = ei
        /\ indent_depth = 1 + Depth(out, ei)
        /\ indent_depth >= 1
        /\ \A i \in 1..Len(code) :
              /\ code[i][1] = 4 * (1 + OpenAround(out, i))
              /\ code[i][2] = "while (*ptr) {" <=> out[i] = "OpenBracket"
              /\ code[i][2] = "}" <=> out[i] = "CloseBracket"
              /\ (out[i] = "OpenBracket" /\ MatchClose(out, i) <= Len(code)) =>
                    /\ code[MatchClose(out, i)][1] = code[i][1]
                    /\ \A m \in (i + 1)..(MatchClose(out, i) - 1) :
                          code[m][1] >= code[i][1] + 4

C20_Witness ==
    /\ buf = <<"[", "[", "]", "]">>
    /\ result.tag = "Ok"
    /\ code = << <<4, "while (*ptr) {">>, <<8, "while (*ptr) {">>,
                 <<8, "}">>, <<4, "}">> >>

----------------------------------------------------------------------------
(* optimise_local on a whole symbol sequence (SpecProg).                   *)

LoopTags == {"Loop", "ZeroLoop", "ScanLoop", "MultiplicationLoop"}

(* The loop statements of a list, at every nesting level, counted. *)
RECURSIVE LoopCount(_)
LoopCount(list) ==
    IF list = <<>> THEN 0
    ELSE LET st == Head(list)
         IN (IF st.tag \in LoopTags THEN 1 ELSE 0)
            + (IF st.tag = "Loop" THEN LoopCount(st.body) ELSE 0)
            + LoopCount(Tail(list))

RECURSIVE StackLoopCount(_)
StackLoopCount(stack) ==
    IF stack = <<>> THEN 0
    ELSE LoopCount(Head(stack)) + StackLoopCount(Tail(stack))

(* OpenBrackets less CloseBrackets among the first k symbols. *)
Balance(syms, k) ==
    Cardinality({j \in 1..k : syms[j] = "OpenBracket"})
        - Cardinality({j \in 1..k : syms[j] = "CloseBracket"})

(* Height(syms, i) without recursion, for long inputs: the balance above   *)
(* its lowest point so far.                                                *)
OpenScopes(syms, i) ==
    LET lows == {Balance(syms, k) : k \in 0..i}
    IN Balance(syms, i) - (CHOOSE low \in lows : \A b \in lows : low <= b)

(* The CloseBrackets of syms met with an open scope on the stack. *)
MatchedCloses(syms) ==
    Cardinality({i \in 1..Len(syms) :
                    syms[i] = "CloseBracket" /\ OpenScopes(syms, i - 1) > 0})

(* C21: for every symbol sequence, balanced or not, the symbols consumed   *)
(* are always a prefix of the input, every step of the loop consumes       *)
(* exactly the next symbol, the loop statements built so far are as many   *)
(* as the CloseBrackets met with an open scope (one classification each),  *)
(* and the function eventually returns having consumed the whole input.    *)
C21_ConsumesEachOnceAndReturns ==
    /\ [](/\ Len(consumed) <= Len(prog)
          /\ consumed = SubSeq(prog, 1, Len(consumed))
          /\ LoopCount(stmts) + StackLoopCount(loop_stack)
                = MatchedCloses(consumed)
          /\ pc = "done" => consumed = prog)
    /\ [][pc' = "loop" =>
            consumed' = Append(consumed, prog[Len(consumed) + 1])]_vars
    /\ <>(pc = "done")

C21_Witness ==
    /\ pc = "done"
    /\ prog = <<"CloseBracket", "OpenBracket", "CloseBracket", "OpenBracket">>
    /\ consumed = prog
    /\ stmts = <<>>
    /\ loop_stack = <<<<Loop(<<>>)>>>>

(* C22 as stated: `++[->+>+<-<]` gives two statements, Action(0,{0:2}) and *)
(* a MultiplicationLoop of decrement 1 whose targets hold the pair (1,1)   *)
(* and an entry for offset 2.                                              *)
C22_DeclutterKeepsOffsetOne ==
    (pc = "done" /\ prog = DeclutterInput) =>
        /\ Len(stmts) = 2
        /\ stmts[1] = Action(0, (0 :> 2))
        /\ stmts[2].tag = "MultiplicationLoop"
        /\ stmts[2].decrement = 1
        /\ <<1, 1>> \in stmts[2].targets
        /\ \E t \in stmts[2].targets : t[1] = 2

(* C22 amended: `++[->+>+<-<]` gives Action(0,{0:2}) followed by           *)
(* MultiplicationLoop(1, {(2,1)}): the +1 and -1 at offset 1 cancel and    *)
(* leave no entry for offset 1.                                            *)
C22_DeclutterDropsOffsetOne ==
    (pc = "done" /\ prog = DeclutterInput) =>
        /\ stmts = <<Action(0, (0 :> 2)), MultiplicationLoop(1, {<<2, 1>>})>>
        /\ \A t \in stmts[2].targets : t[1] # 1

C22_Witness ==
    /\ pc = "done"
    /\ consumed = DeclutterInput
    /\ Len(stmts) = 2
    /\ stmts[2] = MultiplicationLoop(1, {<<2, 1>>})

(* C23: the decrement of every MultiplicationLoop built is an odd byte in  *)
(* 1..255, the negated offset-0 delta of the body modulo 256; a delta of   *)
(* -257 gives decrement 1.                                                 *)
C23_DecrementIsOddByte ==
    [][(ClosesLoop /\ Closed.tag = "MultiplicationLoop")
        => /\ Closed.decrement \in 1..255
           /\ Closed.decrement % 2 = 1
           /\ (Closed.decrement + BodyDelta(stmts, 0)) % 256 = 0
           /\ BodyDelta(stmts, 0) = -257 => Closed.decrement = 1]_vars

C23_Witness ==
    /\ pc = "done"
    /\ prog = LoopOfRun("Minus", 257)
    /\ stmts = <<MultiplicationLoop(1, {})>>

----------------------------------------------------------------------------
(* Shape of the lists the optimizer holds (Spec).                          *)

(* C26: at a CloseBracket with an open scope the statement built is        *)
(* ScanLoop(d) exactly when the body list is one Action of offset d = 1 or *)
(* d = -1 with no changes; one Action of offset 2 or 0, or with changes,   *)
(* does not give a ScanLoop.                                               *)
C26_ScanIffSingleStepAction ==
    [][ClosesLoop =>
        LET one == Len(stmts) = 1 /\ stmts[1].tag = "Action"
            step == /\ one
                    /\ stmts[1].offset \in {1, -1}
                    /\ DOMAIN stmts[1].changes = {}
        IN /\ Closed.tag = "ScanLoop" <=> step
           /\ step => Closed = ScanLoop(stmts[1].offset)
           /\ (one /\ (stmts[1].offset \in {0, 2}
                        \/ DOMAIN stmts[1].changes # {}))
                 => Closed.tag # "ScanLoop"]_vars

C26_Witness ==
    /\ consumed = <<"OpenBracket", "Right", "Left", "Left", "CloseBracket">>
    /\ stmts = <<ScanLoop(-1)>>

MergedTags == {"Action", "Output", "Input"}

(* No two neighbours of the list, nor of any Loop body in it, are both     *)
(* Actions, both Outputs or both Inputs.                                   *)
RECURSIVE NoAdjacentTwins(_)
NoAdjacentTwins(list) ==
    /\ \A i \in 1..(Len(list) - 1) :
          ~(list[i].tag \in MergedTags /\ list[i + 1].tag = list[i].tag)
    /\ \A i \in 1..Len(list) :
          list[i].tag = "Loop" => NoAdjacentTwins(list[i].body)

(* A list made of Actions only, here or in a Loop body, has at most one. *)
RECURSIVE ActionListsAreSingle(_)
ActionListsAreSingle(list) ==
    /\ BodyAllActions(list) => Len(list) <= 1
    /\ \A i \in 1..Len(list) :
          list[i].tag = "Loop" => ActionListsAreSingle(list[i].body)

(* C27: in every state, and so in the returned Program, no list at any     *)
(* level holds two adjacent Actions, Outputs or Inputs; a list of Actions  *)
(* only has at most one statement, so in the fold of such a body every     *)
(* Action's changes are added at running offset 0.                         *)
C27_NoAdjacentTwins ==
    /\ NoAdjacentTwins(stmts)
    /\ \A d \in 1..Len(loop_stack) : NoAdjacentTwins(loop_stack[d])
    /\ ActionListsAreSingle(stmts)
    /\ \A d \in 1..Len(loop_stack) : ActionListsAreSingle(loop_stack[d])
    /\ BodyAllActions(stmts) =>
          \A i \in 1..Len(stmts) :
             DOMAIN stmts[i].changes # {} => BodyBase(stmts, i) = 0

C27_Witness ==
    /\ consumed = <<"Plus", "Right", "Plus", "Period", "Period">>
    /\ stmts = <<Action(1, (0 :> 1) @@ (1 :> 1)), Output(2)>>

IsBracket(symbol) == symbol \in {"OpenBracket", "CloseBracket"}

(* The loop statements of a list as brackets: a Loop around the brackets   *)
(* of its body, any other loop statement as an empty pair.                 *)
RECURSIVE Brackets(_)
Brackets(list) ==
    IF list = <<>> THEN <<>>
    ELSE LET st == Head(list)
         IN (CASE st.tag = "Loop" ->
                    <<"OpenBracket">> \o Brackets(st.body) \o <<"CloseBracket">>
               [] st.tag \in LoopTags \ {"Loop"} ->
                    <<"OpenBracket", "CloseBracket">>
               [] OTHER -> <<>>)
            \o Brackets(Tail(list))

(* C28: while no CloseBracket has come without an open scope, the stack    *)
(* height is the number of OpenBrackets not yet closed; when the input     *)
(* read is balanced the stack is empty and the loop statements of the      *)
(* tree, read as brackets, are the brackets of the input: one loop         *)
(* statement per pair, nested and ordered as in the source.                *)
C28_StackMirrorsNesting ==
    /\ (\A i \in 1..Len(consumed) : Depth(consumed, i) >= 0)
          => Len(loop_stack) = Depth(consumed, Len(consumed))
    /\ Balanced(consumed) =>
          /\ loop_stack = <<>>
          /\ Brackets(stmts) = SelectSeq(consumed, IsBracket)
          /\ LoopCount(stmts)
                = Cardinality({i \in 1..Len(consumed) :
                                  consumed[i] = "OpenBracket"})

C28_Witness ==
    /\ pc = "done"
    /\ consumed = <<"OpenBracket", "OpenBracket", "Period", "CloseBracket",
                    "CloseBracket">>
    /\ stmts = <<Loop(<<Loop(<<Output(1)>>)>>)>>
    /\ loop_stack = <<>>

(* C29: a step for Plus, Minus, Right, Left, Period or Comma leaves the    *)
(* stack alone and either appends one statement or changes only the last   *)
(* one, and never a loop statement; Right or Left on a last Action moves   *)
(* its offset by one and keeps its changes; OpenBracket pushes the current *)
(* list unchanged; CloseBracket pops one list and appends one statement to *)
(* it, leaving the lists below and the statements before it as they were.  *)
C29_OnlyLastStatementChanges ==
    [][consumed' # consumed =>
        LET symbol == consumed'[Len(consumed')]
            n == Len(stmts)
            h == Len(loop_stack)
        IN /\ ~IsBracket(symbol) =>
                /\ loop_stack' = loop_stack
                /\ Len(stmts') \in {n, n + 1}
                /\ \A i \in 1..n :
                      (i < n \/ Len(stmts') = n + 1 \/ stmts[i].tag \in LoopTags)
                         => stmts'[i] = stmts[i]
           /\ (symbol \in {"Right", "Left"} /\ LastIs(stmts, "Action")) =>
                /\ Len(stmts') = n
                /\ stmts'[n].changes = stmts[n].changes
                /\ stmts'[n].offset
                      = stmts[n].offset + (IF symbol = "Right" THEN 1 ELSE -1)
           /\ symbol = "OpenBracket" =>
                loop_stack' = Append(loop_stack, stmts) /\ stmts' = <<>>
           /\ (symbol = "CloseBracket" /\ h > 0) =>
                /\ loop_stack' = SubSeq(loop_stack, 1, h - 1)
                /\ Len(stmts') = Len(loop_stack[h]) + 1
                /\ SubSeq(stmts', 1, Len(loop_stack[h])) = loop_stack[h]
           /\ (symbol = "CloseBracket" /\ h = 0) =>
                UNCHANGED <<stmts, loop_stack>>]_vars

C29_Witness ==
    /\ consumed = <<"OpenBracket", "CloseBracket", "Plus", "Right">>
    /\ stmts = <<Loop(<<>>), Action(1, (0 :> 1))>>

----------------------------------------------------------------------------
(* main (src/src/main.rs): the argument scan, then the translation of the  *)
(* input file.  The contents of the files are not modelled: opening,       *)
(* translating and writing each succeed or panic.                          *)

ArgWords == {"--no-verify", "--help", "--bogus", "--", "-v", "in.bf", "out.c"}

(* arg.starts_with("--"), on the words above. *)
StartsWithDashes(arg) == arg \in {"--no-verify", "--help", "--bogus", "--"}

RECURSIVE ArgLists(_)
ArgLists(n) ==
    IF n = 0 THEN {<<>>}
    ELSE LET shorter == ArgLists(n - 1)
         IN shorter \cup {Append(l, w) : l \in shorter, w \in ArgWords}

UsageText ==
    <<"Usage: bf2c [input.bf output.c] [options]",
      "",
      "Options:",
      "  --help       Show this help message",
      "  --no-verify  Skip loop verification during parsing",
      "",
      "Defaults:",
      "  input:       src/bf.bf",
      "  output:      c.c">>

DefaultInput == "src/bf.bf"

DefaultOutput == "c.c"

(* The status the parent sees for process::exit(code): its low eight bits. *)
ExitStatus(exit_code) == exit_code % 256

(* The status of a process ended by a panic. *)
PanicStatus == 101

UnwrapOr(option, default) == IF option = None THEN default ELSE option[1]

InitMain ==
    /\ args \in ArgLists(MaxArgs)
    /\ ai = 0
    /\ input_file = None
    /\ output_file = None
    /\ main_verify = TRUE
    /\ main_pc = "scan"
    /\ status = None
    /\ files = <<>>
    /\ printed = <<>>
    /\ OptIdle /\ BfIdle /\ ExprIdle /\ RenIdle

(* `for arg in &args`: the next argument is met. *)
Meet ==
    /\ main_pc = "scan"
    /\ ai < Len(args)
    /\ ai' = ai + 1
    /\ UNCHANGED <<args, files>>
    /\ UNCHANGED <<optVars, bfVars, exprVars, renVars>>

ArgNoVerify ==
    /\ Meet
    /\ args[ai + 1] = "--no-verify"
    /\ main_verify' = FALSE
    /\ UNCHANGED <<input_file, output_file, main_pc, status, printed>>

ArgHelp ==
    /\ Meet
    /\ args[ai + 1] = "--help"
    /\ printed' = printed \o UsageText
    /\ main_pc' = "exit"
    /\ status' = Some(0)
    /\ UNCHANGED <<input_file, output_file, main_verify>>

ArgUnknownFlagIgnored ==
    /\ Meet
    /\ StartsWithDashes(args[ai + 1])
    /\ args[ai + 1] \notin {"--no-verify", "--help"}
    /\ UNCHANGED <<input_file, output_file, main_verify, main_pc, status,
                   printed>>

ArgUnknownFlag ==
    /\ Meet
    /\ StartsWithDashes(args[ai + 1])
    /\ args[ai + 1] \notin {"--no-verify", "--help"}
    /\ printed' = Append(printed, <<"Unknown flag: ", args[ai + 1]>>)
    /\ main_pc' = "exit"
    /\ status' = Some(ExitStatus(1))
    /\ UNCHANGED <<input_file, output_file, main_verify>>

ArgPositional ==
    /\ Meet
    /\ ~StartsWithDashes(args[ai + 1])
    /\ IF input_file = None
       THEN /\ input_file' = Some(args[ai + 1])
            /\ UNCHANGED <<output_file, main_pc, status, printed>>
       ELSE IF output_file = None
       THEN /\ output_file' = Some(args[ai + 1])
            /\ UNCHANGED <<input_file, main_pc, status, printed>>
       ELSE /\ printed' = Append(printed, "Too many files (expected at most 2)")
            /\ main_pc' = "exit"
            /\ status' = Some(ExitStatus(-1))
            /\ UNCHANGED <<input_file, output_file>>
    /\ UNCHANGED main_verify

(* File::open(input_file) and read_to_string, each with .expect(..). *)
OpenInput ==
    /\ main_pc = "scan"
    /\ ai = Len(args)
    /\ files' = Append(files, <<"open", UnwrapOr(input_file, DefaultInput)>>)
    /\ \E opened \in BOOLEAN :
          IF opened
          THEN main_pc' = "translate" /\ UNCHANGED status
          ELSE main_pc' = "exit" /\ status' = Some(PanicStatus)
    /\ UNCHANGED <<args, ai, input_file, output_file, main_verify, printed>>
    /\ UNCHANGED <<optVars, bfVars, exprVars, renVars>>

(* bf2cify(contents) or bf2cify_without_verification(contents), with       *)
(* .expect("failed to bf2cify").                                           *)
Translate ==
    /\ main_pc = "translate"
    /\ \E translated \in BOOLEAN :
          IF translated
          THEN main_pc' = "write" /\ UNCHANGED status
          ELSE main_pc' = "exit" /\ status' = Some(PanicStatus)
    /\ UNCHANGED <<args, ai, input_file, output_file, main_verify, files,
                   printed>>
    /\ UNCHANGED <<optVars, bfVars, exprVars, renVars>>

(* File::create(output_file).expect(..) and write_all(..).unwrap(). *)
WriteOutput ==
    /\ main_pc = "write"
    /\ files' = Append(files, <<"create", UnwrapOr(output_file, DefaultOutput)>>)
    /\ main_pc' = "exit"
    /\ \E written \in BOOLEAN :
          status' = IF written THEN Some(0) ELSE Some(PanicStatus)
    /\ UNCHANGED <<args, ai, input_file, output_file, main_verify, printed>>
    /\ UNCHANGED <<optVars, bfVars, exprVars, renVars>>

NextMain ==
    \/ ArgNoVerify
    \/ ArgHelp
    \/ ArgUnknownFlag
    \/ ArgPositional
    \/ OpenInput
    \/ Translate
    \/ WriteOutput

SpecMain == InitMain /\ [][NextMain]_vars

(* The arguments that are not flags, in order. *)
Positionals(list) ==
    SelectSeq(list, LAMBDA word : ~StartsWithDashes(word))

(* The first argument that ends the scan: `--help`, an unknown flag, or a  *)
(* third positional argument; 0 if there is none.                          *)
FirstStop(list) ==
    LET stops == {i \in 1..Len(list) :
                    \/ StartsWithDashes(list[i]) /\ list[i] # "--no-verify"
                    \/ /\ ~StartsWithDashes(list[i])
                       /\ Len(Positionals(SubSeq(list, 1, i - 1))) >= 2}
    IN IF stops = {} THEN 0 ELSE CHOOSE i \in stops : \A j \in stops : i <= j

(* C24: the scan goes left to right and ends at the first `--help`,        *)
(* unknown flag or third positional argument: with status 0 and the usage  *)
(* text for `--help`, with a non-zero status otherwise, and no file is     *)
(* ever opened or created; files are touched only when the whole list was  *)
(* scanned; the input path is the first positional argument met, the       *)
(* output path the second; verify is false exactly when `--no-verify` was  *)
(* met.                                                                    *)
C24_ScanStopsBeforeFiles ==
    LET stop == FirstStop(args)
        met == SubSeq(args, 1, ai)
        pos == Positionals(met)
    IN /\ ai <= (IF stop = 0 THEN Len(args) ELSE stop)
       /\ stop # 0 => files = <<>>
       /\ files # <<>> => ai = Len(args)
       /\ (stop # 0 /\ ai = stop) =>
             /\ main_pc = "exit"
             /\ IF args[stop] = "--help"
                THEN status = Some(0) /\ printed = UsageText
                ELSE status # None /\ status # Some(0) /\ Len(printed) = 1
       /\ (stop = 0 \/ ai < stop) =>
             /\ printed = <<>>
             /\ files = <<>> => status = None
       /\ input_file = IF Len(pos) >= 1 THEN Some(pos[1]) ELSE None
       /\ output_file = IF Len(pos) >= 2 THEN Some(pos[2]) ELSE None
       /\ main_verify <=> (\A i \in 1..ai : args[i] # "--no-verify")

C24_Witness ==
    /\ args = <<"in.bf", "--no-verify", "out.c", "-v">>
    /\ main_pc = "exit"
    /\ status = Some(255)
    /\ files = <<>>
    /\ ~main_verify
    /\ input_file = Some("in.bf")
    /\ output_file = Some("out.c")

----------------------------------------------------------------------------
(* RenamerCTX::add_name and the Trie behind it (src/src/c2bf/renamer.rs).  *)
(* A HashMap<String, _> is a function on a finite set of strings, the      *)
(* empty one being <<>>.                                                   *)

UnknownType == [tag |-> "UnknownType"]

KnownType(ty) == [tag |-> "KnownType", ty |-> ty]

(* impl Display for SemType, over Type::Char and Type::Int. *)
DisplaySemType(ty) ==
    IF ty.tag = "UnknownType" THEN "Unknown type"
    ELSE IF ty.ty = "Char" THEN "char" ELSE "int"

(* Trie::empty() *)
TrieEmpty == [member |-> None, map |-> <<>>]

(* Trie::get_name looking at the node of the path's end only. *)
RECURSIVE TrieGetNameExact(_, _)
TrieGetNameExact(trie, scope) ==
    IF scope = <<>> THEN trie.member
    ELSE IF Head(scope) \in DOMAIN trie.map
         THEN TrieGetNameExact(trie.map[Head(scope)], Tail(scope))
         ELSE None

(* Trie::get_name: the member of this node, or else what the child named   *)
(* by the first scope key finds for the rest of the scope.                 *)
RECURSIVE TrieGetName(_, _)
TrieGetName(trie, scope) ==
    IF trie.member # None THEN trie.member
    ELSE IF scope = <<>> THEN None
    ELSE IF Head(scope) \in DOMAIN trie.map
         THEN TrieGetName(trie.map[Head(scope)], Tail(scope))
         ELSE None

(* Trie::insert *)
RECURSIVE TrieInsert(_, _, _)
TrieInsert(trie, path, ty) ==
    IF path = <<>> THEN [trie EXCEPT !.member = Some(ty)]
    ELSE LET cd == Head(path)
             entry == IF cd \in DOMAIN trie.map THEN trie.map[cd] ELSE TrieEmpty
         IN [trie EXCEPT !.map =
                MapInsert(trie.map, cd, TrieInsert(entry, Tail(path), ty))]

Names == {"x", "y"}

(* Scope paths: the global scope, two sibling scopes, two scopes nested in *)
(* the first of them.                                                      *)
Paths == {<<>>, <<"0">>, <<"1">>, <<"0", "0">>, <<"0", "1">>}

SemTypes == {UnknownType, KnownType("Int"), KnownType("Char")}

QualifiedName(name, path) == [name |-> name, path |-> path]

(* A fresh context (mapping and errs empty). *)
InitRen ==
    /\ mapping = <<>>
    /\ errs = <<>>
    /\ calls = <<>>
    /\ OptIdle /\ BfIdle /\ MainIdle /\ ExprIdle

(* ctx.add_name(name, ty) *)
AddName(name, ty) ==
    LET trie == IF name.name \in DOMAIN mapping
                THEN mapping[name.name] ELSE TrieEmpty
        old_ty == TrieGetName(trie, name.path)
    IN /\ mapping' = MapInsert(mapping, name.name,
                               TrieInsert(trie, name.path, ty))
       /\ errs' = IF old_ty # None
                  THEN Append(errs, <<name.name,
                                      " is previously defined with type: ",
                                      DisplaySemType(old_ty[1])>>)
                  ELSE errs
       /\ calls' = Append(calls, [name |-> name, ty |-> ty])
       /\ UNCHANGED <<optVars, bfVars, mainVars, exprVars>>

NextRen ==
    /\ Len(calls) < MaxCalls
    /\ \E n \in Names, path \in Paths, ty \in SemTypes :
          AddName(QualifiedName(n, path), ty)

SpecRen == InitRen /\ [][NextRen]_vars

(* p is q or a prefix of q: the scope p is q or encloses it. *)
IsPrefix(p, q) == Len(p) <= Len(q) /\ SubSeq(q, 1, Len(p)) = p

(* The name of call i was defined by an earlier call in the same scope or  *)
(* in an enclosing one.                                                    *)
Redefines(history, i) ==
    \E j \in 1..(i - 1) :
        /\ history[j].name.name = history[i].name.name
        /\ IsPrefix(history[j].name.path, history[i].name.path)

(* The type recorded at exactly this path of the name's trie, if any. *)
RECURSIVE TrieAt(_, _)
TrieAt(trie, path) ==
    IF path = <<>> THEN trie.member
    ELSE IF Head(path) \in DOMAIN trie.map
         THEN TrieAt(trie.map[Head(path)], Tail(path))
         ELSE None

(* C30: an add_name call appends exactly one "previously defined" error    *)
(* when the name already has a type at the same scope path or at a prefix  *)
(* of it, and none otherwise (a sibling or deeper scope does not count);   *)
(* either way the trie then holds the new type at the path, the types at   *)
(* other names and paths are as before, and errs only grows.               *)
C30_ErrorIffEnclosingDefinition ==
    [][calls' # calls =>
        LET i == Len(calls')
            call == calls'[i]
        IN /\ IF Redefines(calls', i)
              THEN /\ Len(errs') = Len(errs) + 1
                   /\ SubSeq(errs', 1, Len(errs)) = errs
                   /\ errs'[Len(errs')][1] = call.name.name
                   /\ errs'[Len(errs')][2] = " is previously defined with type: "
              ELSE errs' = errs
           /\ TrieAt(mapping'[call.name.name], call.name.path) = Some(call.ty)
           /\ \A n \in DOMAIN mapping : \A path \in Paths :
                 (n # call.name.name \/ path # call.name.path)
                    => TrieAt(mapping'[n], path) = TrieAt(mapping[n], path)]_vars

C30_Witness ==
    /\ Len(calls) = 3
    /\ calls[1] = [name |-> QualifiedName("x", <<"0">>), ty |-> KnownType("Int")]
    /\ calls[2] = [name |-> QualifiedName("x", <<"0", "1">>), ty |-> UnknownType]
    /\ calls[3] = [name |-> QualifiedName("x", <<"1">>), ty |-> KnownType("Char")]
    /\ errs = << <<"x", " is previously defined with type: ", "int">> >>
    /\ TrieAt(mapping["x"], <<"0", "1">>) = Some(UnknownType)

----------------------------------------------------------------------------
(* The expression parser (src/src/c2bf/parser.rs, `expr`): atoms and       *)
(* parenthesized expressions combined by chumsky's Pratt parser from the   *)
(* operator table given in the source.  A text is a sequence of            *)
(* characters; an identifier is a run of letters.                          *)

Letters == {"a", "b", "c", "d", "e", "f", "g", "h", "x"}

(* enum Atom, enum Expr *)
Var(name) == [tag |-> "Var", name |-> name]

Atom(atom) == [tag |-> "Atom", atom |-> atom]

Neg(x) == [tag |-> "Neg", x |-> x]

Binary(tag, x, y) == [tag |-> tag, x |-> x, y |-> y]

Add(x, y) == Binary("Add", x, y)

Mul(x, y) == Binary("Mul", x, y)

Lt(x, y) == Binary("Lt", x, y)

Gt(x, y) == Binary("Gt", x, y)

Eq(x, y) == Binary("Eq", x, y)

Assignment(x, y) == Binary("Assignment", x, y)

Call(x, y) == [tag |-> "Call", x |-> x, y |-> y]

(* The infix operators in the order of the tuple given to .pratt(..). *)
InfixOpsAddTighter ==
    << [tok |-> <<"*">>, assoc |-> "left", power |-> 12, tag |-> "Mul"],
       [tok |-> <<"+">>, assoc |-> "left", power |-> 13, tag |-> "Add"],
       [tok |-> <<"<">>, assoc |-> "left", power |-> 10, tag |-> "Lt"],
       [tok |-> <<">">>, assoc |-> "left", power |-> 10, tag |-> "Gt"],
       [tok |-> <<"=", "=">>, assoc |-> "left", power |-> 9, tag |-> "Eq"],
       [tok |-> <<"=">>, assoc |-> "right", power |-> 2, tag |-> "Assignment"] >>

InfixOps ==
    << [tok |-> <<"*">>, assoc |-> "left", power |-> 13, tag |-> "Mul"],
       [tok |-> <<"+">>, assoc |-> "left", power |-> 12, tag |-> "Add"],
       [tok |-> <<"<">>, assoc |-> "left", power |-> 10, tag |-> "Lt"],
       [tok |-> <<">">>, assoc |-> "left", power |-> 10, tag |-> "Gt"],
       [tok |-> <<"=", "=">>, assoc |-> "left", power |-> 9, tag |-> "Eq"],
       [tok |-> <<"=">>, assoc |-> "right", power |-> 2, tag |-> "Assignment"] >>

\* prefix(14, just('!') ..) and postfix(15, ..)
PrefixPower == 14
PostfixPower == 15

(* The Pratt parser compares doubled binding powers; associativity breaks  *)
(* the tie between an operator and itself.                                 *)
LeftPower(op) == IF op.assoc = "left" THEN 2 * op.power ELSE 2 * op.power + 1

RightPower(op) == IF op.assoc = "left" THEN 2 * op.power + 1 ELSE 2 * op.power

Parsed(val, rest) == [ok |-> TRUE, val |-> val, rest |-> rest]

Failed == [ok |-> FALSE]

(* .padded(): white space around a token is skipped. *)
RECURSIVE Lex(_)
Lex(inp) == IF inp # <<>> /\ Head(inp) = " " THEN Lex(Tail(inp)) ELSE inp

Drop(inp, n) == SubSeq(inp, n + 1, Len(inp))

StartsWith(inp, tok) == Len(inp) >= Len(tok) /\ SubSeq(inp, 1, Len(tok)) = tok

(* text::ascii::ident(): the length of the leading run of letters. *)
RECURSIVE IdentLen(_)
IdentLen(inp) ==
    IF inp # <<>> /\ Head(inp) \in Letters THEN 1 + IdentLen(Tail(inp)) ELSE 0

RECURSIVE PrattGo(_, _)
RECURSIVE PrattLoop(_, _, _)
RECURSIVE TryInfix(_, _, _, _)
RECURSIVE ParseArgs(_, _)
RECURSIVE ParsePrimary(_)

(* choice((atom().map(Expr::Atom), expr.delimited_by('(', ')'))) *)
ParsePrimary(inp) ==
    LET i == Lex(inp)
        n == IdentLen(i)
    IN IF n > 0 THEN Parsed(Atom(Var(SubSeq(i, 1, n))), Lex(Drop(i, n)))
       ELSE IF StartsWith(i, <<"(">>)
       THEN LET inner == PrattGo(Lex(Drop(i, 1)), 0)
            IN IF inner.ok /\ StartsWith(inner.rest, <<")">>)
               THEN Parsed(inner.val, Lex(Drop(inner.rest, 1)))
               ELSE Failed
       ELSE Failed

(* expr.separated_by(just(',')).allow_trailing().collect() *)
ParseArgs(inp, acc) ==
    LET item == PrattGo(inp, 0)
    IN IF ~item.ok THEN Parsed(acc, inp)
       ELSE IF StartsWith(item.rest, <<",">>)
       THEN ParseArgs(Lex(Drop(item.rest, 1)), Append(acc, item.val))
       ELSE Parsed(Append(acc, item.val), item.rest)

(* The postfix operator: an argument list delimited by brackets. *)
ParseCallArgs(inp) ==
    IF StartsWith(inp, <<"(">>)
    THEN LET list == ParseArgs(Lex(Drop(inp, 1)), <<>>)
         IN IF StartsWith(list.rest, <<")">>)
            THEN Parsed(list.val, Lex(Drop(list.rest, 1)))
            ELSE Failed
    ELSE Failed

(* The infix operators from the k-th on, each tried if it binds at least   *)
(* as tightly as min_power; a failed right operand rewinds.                *)
TryInfix(k, lhs, inp, min_power) ==
    IF k > Len(InfixOps) THEN Failed
    ELSE LET op == InfixOps[k]
         IN IF LeftPower(op) >= min_power /\ StartsWith(inp, op.tok)
            THEN LET rhs == PrattGo(Lex(Drop(inp, Len(op.tok))), RightPower(op))
                 IN IF rhs.ok
                    THEN Parsed(Binary(op.tag, lhs, rhs.val), rhs.rest)
                    ELSE TryInfix(k + 1, lhs, inp, min_power)
            ELSE TryInfix(k + 1, lhs, inp, min_power)

(* The loop of the Pratt parser: postfix and infix operators applied to    *)
(* the expression parsed so far.                                           *)
PrattLoop(lhs, inp, min_power) ==
    LET post == IF 2 * PostfixPower >= min_power
                THEN ParseCallArgs(inp) ELSE Failed
    IN IF post.ok THEN PrattLoop(Call(lhs, post.val), post.rest, min_power)
       ELSE LET bin == TryInfix(1, lhs, inp, min_power)
            IN IF bin.ok THEN PrattLoop(bin.val, bin.rest, min_power)
               ELSE Parsed(lhs, inp)

(* A prefix operator and its operand, or a primary; then the loop. *)
PrattGo(inp, min_power) ==
    LET i == Lex(inp)
        operand == IF StartsWith(i, <<"!">>)
                   THEN PrattGo(Lex(Drop(i, 1)), 2 * PrefixPower)
                   ELSE Failed
        first == IF operand.ok THEN Parsed(Neg(operand.val), operand.rest)
                 ELSE ParsePrimary(i)
    IN IF first.ok THEN PrattLoop(first.val, first.rest, min_power) ELSE Failed

(* The claimed binding order as a level per node, tightest highest. *)
Level(tree) ==
    CASE tree.tag = "Atom" -> 8
      [] tree.tag = "Call" -> 7
      [] tree.tag = "Neg" -> 6
      [] tree.tag = "Mul" -> 5
      [] tree.tag = "Add" -> 4
      [] tree.tag \in {"Lt", "Gt"} -> 3
      [] tree.tag = "Eq" -> 2
      [] tree.tag = "Assignment" -> 1

TokenOf(tag) ==
    CASE tag = "Mul" -> <<"*">>
      [] tag = "Add" -> <<"+">>
      [] tag = "Lt" -> <<"<">>
      [] tag = "Gt" -> <<">">>
      [] tag = "Eq" -> <<"=", "=">>
      [] tag = "Assignment" -> <<"=">>

(* The text of a tree with brackets exactly where the claimed order needs  *)
(* them: around an operand that binds more loosely than its place allows.  *)
RECURSIVE Unparse(_)
RECURSIVE UnparseArgs(_)
Wrap(tree, level) ==
    IF Level(tree) >= level THEN Unparse(tree)
    ELSE <<"(">> \o Unparse(tree) \o <<")">>

UnparseArgs(list) ==
    IF list = <<>> THEN <<>>
    ELSE IF Len(list) = 1 THEN Unparse(list[1])
    ELSE Unparse(Head(list)) \o <<",">> \o UnparseArgs(Tail(list))

Unparse(tree) ==
    CASE tree.tag = "Atom" -> tree.atom.name
      [] tree.tag = "Neg" -> <<"!">> \o Wrap(tree.x, 6)
      [] tree.tag = "Call" ->
            Wrap(tree.x, 7) \o <<"(">> \o UnparseArgs(tree.y) \o <<")">>
      [] tree.tag = "Assignment" ->
            Wrap(tree.x, 2) \o <<"=">> \o Wrap(tree.y, 1)
      [] OTHER ->
            Wrap(tree.x, Level(tree)) \o TokenOf(tree.tag)
                \o Wrap(tree.y, Level(tree) + 1)

BinaryTags == {"Mul", "Add", "Lt", "Gt", "Eq", "Assignment"}

(* The expressions over the variable x with exactly n operators; a call    *)
(* has at most two arguments.                                              *)
RECURSIVE ExprsOf(_)
ExprsOf(n) ==
    IF n = 0 THEN {Atom(Var(<<"x">>))}
    ELSE {Neg(t) : t \in ExprsOf(n - 1)}
         \cup UNION {{Binary(tag, l, r) :
                        tag \in BinaryTags, l \in ExprsOf(k),
                        r \in ExprsOf(n - 1 - k)} : k \in 0..(n - 1)}
         \cup {Call(t, <<>>) : t \in ExprsOf(n - 1)}
         \cup UNION {{Call(t, <<u>>) :
                        t \in ExprsOf(k), u \in ExprsOf(n - 1 - k)} :
                     k \in 0..(n - 1)}
         \cup UNION {{Call(t, <<u, v>>) :
                        t \in ExprsOf(k[1]), u \in ExprsOf(k[2]),
                        v \in ExprsOf(n - 1 - k[1] - k[2])} :
                     k \in {q \in (0..(n - 1)) \X (0..(n - 1)) :
                               q[1] + q[2] <= n - 1}}

(* `a + b * c` (mul_has_higher_precedence_than_add) *)
MulOverAddText ==
    <<"a", " ", "+", " ", "b", " ", "*", " ", "c">>

(* `a = b = c` (assignment_is_right_associative) *)
AssignChainText ==
    <<"a", " ", "=", " ", "b", " ", "=", " ", "c">>

(* `!f(a)` *)
NegCallText ==
    <<"!", "f", "(", "a", ")">>

(* `(a + b) * c` *)
BracketedAddText ==
    <<"(", "a", " ", "+", " ", "b", ")", " ", "*", " ", "c">>

(* `a = !!b + c * !d < e == !(f = g + !h)` (no_postfix_precedence_stress_test) *)
StressText ==
    <<"a", " ", "=", " ", "!", "!", "b", " ", "+", " ", "c", " ", "*", " ",
      "!", "d", " ", "<", " ", "e", " ", "=", "=", " ", "!", "(", "f", " ",
      "=", " ", "g", " ", "+", " ", "!", "h", ")">>

ExampleTexts ==
    {MulOverAddText, AssignChainText, NegCallText, BracketedAddText, StressText}

V(letter) == Atom(Var(<<letter>>))

(* The tree the stress test of the source expects. *)
StressTree ==
    Assignment(V("a"),
        Eq(Lt(Add(Neg(Neg(V("b"))), Mul(V("c"), Neg(V("d")))), V("e")),
           Neg(Assignment(V("f"), Add(V("g"), Neg(V("h")))))))

Despace(text) == SelectSeq(text, LAMBDA ch : ch # " ")

InitExpr ==
    /\ src \in {Unparse(t) : t \in UNION {ExprsOf(n) : n \in 0..MaxOps}}
                \cup ExampleTexts
    /\ expr_pc = "ready"
    /\ expr_out = NoResult
    /\ OptIdle /\ BfIdle /\ MainIdle /\ RenIdle

(* expr() applied to the text. *)
ParseExpr ==
    /\ expr_pc = "ready"
    /\ expr_out' = PrattGo(src, 0)
    /\ expr_pc' = "parsed"
    /\ UNCHANGED src
    /\ UNCHANGED <<optVars, bfVars, mainVars, renVars>>

NextExpr == ParseExpr

SpecExpr == InitExpr /\ [][NextExpr]_vars

(* C25: the parser reads the whole text and returns the tree whose text,   *)
(* bracketed only where the order call > `!` > `*` > `+` > `<`,`>` > `==`  *)
(* > `=` (left-associative but for `=`) requires, is the input; so         *)
(* `a + b * c` is Add(a, Mul(b, c)), `a = b = c` is Assignment(a,          *)
(* Assignment(b, c)), `!f(a)` is Neg(Call(f, [a])) and a parenthesized     *)
(* sub-expression is one operand.                                          *)
C25_BindingOrder ==
    expr_pc = "parsed" =>
        /\ expr_out.ok
        /\ expr_out.rest = <<>>
        /\ Unparse(expr_out.val) = Despace(src)
        /\ src = MulOverAddText =>
              expr_out.val = Add(V("a"), Mul(V("b"), V("c")))
        /\ src = AssignChainText =>
              expr_out.val = Assignment(V("a"), Assignment(V("b"), V("c")))
        /\ src = NegCallText => expr_out.val = Neg(Call(V("f"), <<V("a")>>))
        /\ src = BracketedAddText =>
              expr_out.val = Mul(Add(V("a"), V("b")), V("c"))
        /\ src = StressText => expr_out.val = StressTree

C25_Witness ==
    /\ expr_pc = "parsed"
    /\ src = <<"x", "+", "x", "*", "x">>
    /\ expr_out.val = Add(V("x"), Mul(V("x"), V("x")))

====
